---- MODULE Spec2Model ----
(***************************************************************************)
(* A model of the IBAN validation engine of src/src/utils/iban.ts:         *)
(* isValidIBAN, isValidIBANChecksum, mod97, the countrySpecs registry and   *)
(* the national BBAN checksum functions.                                    *)
(*                                                                          *)
(* A JavaScript string is a sequence of one-character strings.  A          *)
(* JavaScript number is a record [nan, val]: NaN is [nan |-> TRUE], every   *)
(* other number the model meets is an integer.                              *)
(***************************************************************************)
EXTENDS Integers, Sequences, FiniteSets, TLC

VARIABLES
    input,      \* the value handed to isValidIBAN
    output,     \* what the call returned: "true", "false" ("none" before the call)
    base,       \* the value the current input was derived from
    baseOutput, \* what isValidIBAN returned on base
    edit,       \* how input was derived from base ("none": it is base itself)
    edits,      \* how many edits were applied to base
    editChar,   \* the character the last edit removed or added
    editPos,    \* where in the input the last edit was made
    registry,   \* the countrySpecs object: country code -> entry
    numStr,     \* mod97: the argument
    appended,   \* mod97: how many characters the argument has beyond its seed
    remainder,  \* mod97: the working string of the loop
    lastChunk,  \* mod97: the chunk the last iteration read
    lastChunkNum, \* mod97: the number parsed from it
    pc,         \* mod97: "input", "loop", "done"
    ret,        \* mod97: the returned number
    natFunc,    \* national strategy: the name of the function called
    natArg,     \* national strategy: its argument
    natAppended, \* national strategy: how many characters the argument has beyond its seed
    natRet,     \* national strategy: how the call completed ("none" before it)
    deferFunc,  \* defer: "deferAfterResponse" or "deferAfterResponseNonCritical"
    res,        \* defer: the response-like object handed in
    env,        \* defer: which scheduling globals the runtime has
    deferCalled, \* defer: the call was made
    executed,   \* defer: the flag of the closure executeOnce
    listeners,  \* defer: the events executeOnce is attached to
    fired,      \* defer: the events the response emitted, in order
    taskQueue,  \* defer: the scheduled runs of fn, by the global that queued each
    fnRuns,     \* defer: how many times fn ran
    fnBehaviour, \* defer: what fn does when called (returns, throws, rejects)
    outcomes,   \* defer: how each run of fn ended for the runtime, in order
    clock,      \* throttle, debounce: what Date.now() returns, in ms
    wait,       \* throttle, debounce: the wait the function was made with
    timer,      \* throttle, debounce: the pending timeout (timer, t) and its closure
    last,       \* throttle: the time of the last execution the closure recorded
    history,    \* throttle, debounce: the calls made and the executions of fn, in order
    identifier, \* base36: the identifier handed to encodeBase36Code
    config,     \* base36: the configuration of both calls
    encoded,    \* base36: what encodeBase36Code returned
    decoded,    \* base36: what decodeBase36Code returned on the code
    scrValue,   \* scramble: the string handed to scrambleString, as UTF-16 code units
    scrSecret,  \* scramble: the secret of scrambleString and descrambleString
    scrambled,  \* scramble: what scrambleString(value, secret) returned
    descrambled, \* scramble: what descrambleString returned on its data
    scrSecret2, \* scramble: another secret
    scrambled2, \* scramble: what scrambleString(value, secret2) returned
    nifInput,   \* isPTTaxId: the value handed in
    nifEdits,   \* isPTTaxId: how many digits of the seed were replaced
    nifEditPos, \* isPTTaxId: where the last digit was replaced
    nifOutput,  \* isPTTaxId: what the call returned ("none" before it)
    callValue,  \* isValidIBAN by statement: the argument of the call
    callEdited, \* isValidIBAN by statement: whether the argument was edited
    stage,      \* isValidIBAN by statement: the stage control is at
    trace,      \* isValidIBAN by statement: the stages evaluated, with their outcome
    callIban,   \* isValidIBAN by statement: the local iban
    callSpec,   \* isValidIBAN by statement: the local spec
    invoked,    \* isValidIBAN by statement: the calls of bban_validation_func
    returned,   \* isValidIBAN by statement: what the call returned
    bbanCountry, \* national check: the country code whose entry is used
    bbanText,   \* national check: the BBAN, which matches the country's pattern
    bbanEdits,  \* national check: how many characters of the BBAN were replaced
    bbanEditPos, \* national check: where the last character was replaced
    bbanRet,    \* national check: what the country's function returned
    pairCountry, \* check digits: the country code of the two calls
    pairBban,   \* check digits: the BBAN of the two calls
    pairFirst,  \* check digits: the check digits of the first call (-1 before it)
    pairSecond, \* check digits: the check digits of the second call (-1 before it)
    pairFirstRet, \* check digits: what the first call returned
    pairSecondRet \* check digits: what the second call returned

ibanVars == <<input, output, base, baseOutput, edit, edits, editChar, editPos,
             registry>>

mod97Vars == <<numStr, appended, remainder, lastChunk, lastChunkNum, pc, ret>>

natVars == <<natFunc, natArg, natAppended, natRet>>

deferVars == <<deferFunc, res, env, deferCalled, executed, listeners, fired,
              taskQueue, fnRuns, fnBehaviour, outcomes>>

timerVars == <<clock, wait, timer, last, history>>

base36Vars == <<identifier, config, encoded, decoded>>

scrambleVars ==
    <<scrValue, scrSecret, scrambled, descrambled, scrSecret2, scrambled2>>

nifVars == <<nifInput, nifEdits, nifEditPos, nifOutput>>

stageVars == <<callValue, callEdited, stage, trace, callIban, callSpec,
              invoked, returned>>

familyVars == <<bbanCountry, bbanText, bbanEdits, bbanEditPos, bbanRet>>
pairVars == <<pairCountry, pairBban, pairFirst, pairSecond, pairFirstRet,
              pairSecondRet>>

vars == <<ibanVars, mod97Vars, natVars, deferVars, timerVars, base36Vars,
          scrambleVars, nifVars, stageVars, familyVars, pairVars>>

\* What the actions of one component leave alone.
nonIbanVars ==
    <<mod97Vars, natVars, deferVars, timerVars, base36Vars, scrambleVars,
      nifVars, stageVars, familyVars, pairVars>>

nonMod97Vars ==
    <<ibanVars, natVars, deferVars, timerVars, base36Vars, scrambleVars,
      nifVars, stageVars, familyVars, pairVars>>

nonNatVars ==
    <<ibanVars, mod97Vars, deferVars, timerVars, base36Vars, scrambleVars,
      nifVars, stageVars, familyVars, pairVars>>

nonDeferVars ==
    <<ibanVars, mod97Vars, natVars, timerVars, base36Vars, scrambleVars,
      nifVars, stageVars, familyVars, pairVars>>

nonTimerVars ==
    <<ibanVars, mod97Vars, natVars, deferVars, base36Vars, scrambleVars,
      nifVars, stageVars, familyVars, pairVars>>

nonBase36Vars ==
    <<ibanVars, mod97Vars, natVars, deferVars, timerVars, scrambleVars,
      nifVars, stageVars, familyVars, pairVars>>

nonScrambleVars ==
    <<ibanVars, mod97Vars, natVars, deferVars, timerVars, base36Vars,
      nifVars, stageVars, familyVars, pairVars>>

nonNifVars ==
    <<ibanVars, mod97Vars, natVars, deferVars, timerVars, base36Vars,
      scrambleVars, stageVars, familyVars, pairVars>>

\* A stepwise call of isValidIBAN reads the registry and writes its locals.
nonStageVars ==
    <<ibanVars, mod97Vars, natVars, deferVars, timerVars, base36Vars,
      scrambleVars, nifVars, familyVars, pairVars>>

nonPairVars ==
    <<ibanVars, mod97Vars, natVars, deferVars, timerVars, base36Vars,
      scrambleVars, nifVars, stageVars, familyVars>>

nonFamilyVars ==
    <<ibanVars, mod97Vars, natVars, deferVars, timerVars, base36Vars,
      scrambleVars, nifVars, stageVars, pairVars>>

(***************************************************************************)
(* Characters and the string primitives the code uses.                      *)
(***************************************************************************)
DigitChars == {"0", "1", "2", "3", "4", "5", "6", "7", "8", "9"}

UpperChars == {"A", "B", "C", "D", "E", "F", "G", "H", "I", "J", "K", "L", "M",
               "N", "O", "P", "Q", "R", "S", "T", "U", "V", "W", "X", "Y", "Z"}

LowerChars == {"a", "b", "c", "d", "e", "f", "g", "h", "i", "j", "k", "l", "m",
               "n", "o", "p", "q", "r", "s", "t", "u", "v", "w", "x", "y", "z"}

\* The characters /\s/ matches, among those of the model.
WhitespaceChars == {" ", "\t"}

\* Characters that are neither letters, digits nor whitespace.
OtherChars == {"-", "+", ".", "*"}

Chars == DigitChars \cup UpperChars \cup LowerChars \cup WhitespaceChars \cup OtherChars

UpperSeq == <<"A", "B", "C", "D", "E", "F", "G", "H", "I", "J", "K", "L", "M",
              "N", "O", "P", "Q", "R", "S", "T", "U", "V", "W", "X", "Y", "Z">>

LowerSeq == <<"a", "b", "c", "d", "e", "f", "g", "h", "i", "j", "k", "l", "m",
              "n", "o", "p", "q", "r", "s", "t", "u", "v", "w", "x", "y", "z">>

DigitSeq == <<"0", "1", "2", "3", "4", "5", "6", "7", "8", "9">>

\* String.prototype.charCodeAt(0) of a one-character string (ASCII).
charCodes ==
    [c \in Chars |->
        IF c \in DigitChars THEN 47 + (CHOOSE i \in 1..10 : DigitSeq[i] = c)
        ELSE IF c \in UpperChars THEN 64 + (CHOOSE i \in 1..26 : UpperSeq[i] = c)
        ELSE IF c \in LowerChars THEN 96 + (CHOOSE i \in 1..26 : LowerSeq[i] = c)
        ELSE IF c = "\t" THEN 9
        ELSE IF c = " " THEN 32
        ELSE IF c = "*" THEN 42
        ELSE IF c = "+" THEN 43
        ELSE IF c = "-" THEN 45
        ELSE 46]

charCodeAt0(c) == charCodes[c]

\* String.prototype.toUpperCase, one character.
upperOf ==
    [c \in Chars |->
        IF c \in LowerChars THEN UpperSeq[CHOOSE i \in 1..26 : LowerSeq[i] = c]
        ELSE c]

\* String.prototype.toLowerCase, one character.
lowerOf ==
    [c \in Chars |->
        IF c \in UpperChars THEN LowerSeq[CHOOSE i \in 1..26 : UpperSeq[i] = c]
        ELSE c]

toUpperCase(s) == [i \in 1..Len(s) |-> upperOf[s[i]]]

toLowerCase(s) == [i \in 1..Len(s) |-> lowerOf[s[i]]]

Min(a, b) == IF a < b THEN a ELSE b

Max(a, b) == IF a > b THEN a ELSE b

\* String.prototype.slice(from, to) for 0 <= from: 0-based, to exclusive, clamped.
slice(s, from, to) ==
    LET f == Min(from, Len(s))
        t == Min(to, Len(s))
    IN  IF t <= f THEN <<>> ELSE SubSeq(s, f + 1, t)

\* String.prototype.slice(from): to the end of the string.
sliceFrom(s, from) == slice(s, from, Len(s))

\* String.prototype.substring(from, to): negative arguments count as 0 and the
\* two are swapped when from > to.
substring(s, from, to) ==
    LET a == Min(Max(from, 0), Len(s))
        b == Min(Max(to, 0), Len(s))
    IN  IF a <= b THEN slice(s, a, b) ELSE slice(s, b, a)

\* String.prototype.charAt(i): the empty string out of range.
charAt(s, i) == IF i >= 0 /\ i < Len(s) THEN <<s[i + 1]>> ELSE <<>>

\* Mutant: only whitespace is removed, /\s/g.
stripWhitespaceOnly(s) == SelectSeq(s, LAMBDA c : c \notin WhitespaceChars)

\* s.replace(/[\s-]/g, ""): every whitespace and hyphen removed.
stripFormatting(s) == SelectSeq(s, LAMBDA c : c \notin WhitespaceChars /\ c # "-")

\* s.replace(/[\s.]+/g, ""): every whitespace and full stop removed.
stripDots(s) == SelectSeq(s, LAMBDA c : c \notin WhitespaceChars /\ c # ".")

(***************************************************************************)
(* Numbers.                                                                 *)
(***************************************************************************)
NaN == [nan |-> TRUE, val |-> 0]

Num(v) == [nan |-> FALSE, val |-> v]

\* a === b on numbers: NaN equals nothing.
strictEq(a, b) == ~a.nan /\ ~b.nan /\ a.val = b.val

\* The % of JavaScript on integers: the sign of the dividend.
jsRem(a, m) == IF a >= 0 THEN a % m ELSE 0 - ((0 - a) % m)

numRem(a, m) == IF a.nan THEN NaN ELSE Num(jsRem(a.val, m))

numAdd(a, b) == IF a.nan \/ b.nan THEN NaN ELSE Num(a.val + b.val)

numMul(a, b) == IF a.nan \/ b.nan THEN NaN ELSE Num(a.val * b.val)

numSub(a, b) == IF a.nan \/ b.nan THEN NaN ELSE Num(a.val - b.val)

digitVal(c) == charCodes[c] - 48

\* The value of a string of decimal digits, most significant first.
RECURSIVE digitsValue(_)
digitsValue(ds) ==
    IF Len(ds) = 0 THEN 0
    ELSE 10 * digitsValue(SubSeq(ds, 1, Len(ds) - 1)) + digitVal(ds[Len(ds)])

\* The longest prefix of s made of decimal digits.
RECURSIVE digitPrefix(_)
digitPrefix(s) ==
    IF Len(s) = 0 \/ s[1] \notin DigitChars THEN <<>>
    ELSE <<s[1]>> \o digitPrefix(Tail(s))

RECURSIVE skipWhitespace(_)
skipWhitespace(s) ==
    IF Len(s) > 0 /\ s[1] \in WhitespaceChars THEN skipWhitespace(Tail(s)) ELSE s

\* parseInt(s, 10): leading whitespace is skipped, one sign is read, then the
\* longest run of digits; whatever follows is ignored; NaN when there is no digit.
parseInt(s) ==
    LET t == skipWhitespace(s)
        neg == Len(t) > 0 /\ t[1] = "-"
        u == IF Len(t) > 0 /\ t[1] \in {"-", "+"} THEN Tail(t) ELSE t
        ds == digitPrefix(u)
    IN  IF Len(ds) = 0 THEN NaN
        ELSE IF neg THEN Num(0 - digitsValue(ds)) ELSE Num(digitsValue(ds))

\* Number.prototype.toString of an integer.
RECURSIVE natToString(_)
natToString(n) ==
    IF n < 10 THEN <<DigitSeq[n + 1]>>
    ELSE natToString(n \div 10) \o <<DigitSeq[(n % 10) + 1]>>

numToString(n) == IF n < 0 THEN <<"-">> \o natToString(0 - n) ELSE natToString(n)

(***************************************************************************)
(* mod97 (iban.ts 98-111).                                                  *)
(***************************************************************************)
\* The chunk one loop iteration reads: remainder.slice(0, 9).
mod97Chunk(rem) == slice(rem, 0, 9)

\* One iteration of the while loop on the working string: the new working
\* string, or NaN when the chunk does not parse.
mod97Iter(rem) ==
    LET chunk == mod97Chunk(rem)
        chunkNum == parseInt(chunk)
    IN  IF chunkNum.nan THEN [nan |-> TRUE, rem |-> rem]
        ELSE [nan |-> FALSE,
              rem |-> numToString(jsRem(chunkNum.val, 97)) \o sliceFrom(rem, Len(chunk))]

\* Mutant: the last reduction is left out.
mod97FinalUnreduced(rem) == parseInt(rem)

\* The statement after the loop: parseInt(remainder, 10) % 97.
mod97Final(rem) == numRem(parseInt(rem), 97)

RECURSIVE mod97(_)
mod97(s) ==
    IF Len(s) > 2
    THEN LET it == mod97Iter(s)
         IN  IF it.nan THEN NaN ELSE mod97(it.rem)
    ELSE mod97Final(s)

(***************************************************************************)
(* The national BBAN checksum functions (iban.ts 417-765).                  *)
(***************************************************************************)
\* parseInt(s.charAt(i), 10)
digitAt(s, i) == parseInt(charAt(s, i))

\* weights[i]: undefined, hence NaN in a product, outside the array.
weightAt(weights, i) == IF i >= 0 /\ i < Len(weights) THEN Num(weights[i + 1]) ELSE NaN

\* The terms parseInt(s.charAt(i), 10) * weights[i] of the rounds lo..(hi - 1)
\* added up; the sum of a range is the sum of its two halves, and NaN in
\* either half gives NaN.
RECURSIVE weightedSumRange(_, _, _, _)
weightedSumRange(s, weights, lo, hi) ==
    IF hi <= lo THEN Num(0)
    ELSE IF hi = lo + 1 THEN numMul(digitAt(s, lo), weightAt(weights, lo))
    ELSE LET mid == (lo + hi) \div 2
         IN  numAdd(weightedSumRange(s, weights, lo, mid),
                    weightedSumRange(s, weights, mid, hi))

\* for (i = 0; i < n; i++) sum += parseInt(s.charAt(i), 10) * weights[i], from sum = 0
weightedSum(s, weights, n) == weightedSumRange(s, weights, 0, n)

\* remainder === 0 ? 0 : remainder === 1 ? 1 : 11 - remainder
control11(rem) ==
    IF strictEq(rem, Num(0)) THEN Num(0)
    ELSE IF strictEq(rem, Num(1)) THEN Num(1)
    ELSE numSub(Num(11), rem)

\* Mutant: no case for the remainder 0.
controlBaseAlwaysSubtract(rem, b) == numSub(Num(b), rem)

\* remainder === 0 ? 0 : base - remainder
controlBase(rem, b) ==
    IF strictEq(rem, Num(0)) THEN Num(0) ELSE numSub(Num(b), rem)

\* Mutant: the remainder is compared with 0.
checkMod97BBANRemainderZero(bban) == strictEq(mod97(stripDots(bban)), Num(0))

checkMod97BBAN(bban) ==
    LET stripped == stripDots(bban)
    IN  strictEq(mod97(stripped), Num(1))

\* parseInt(s, 10) % m, computed digit by digit: the checking part of a Belgian
\* BBAN has 10 digits, which a double holds exactly.
RECURSIVE digitsRem(_, _)
digitsRem(ds, m) ==
    IF Len(ds) = 0 THEN 0
    ELSE (10 * digitsRem(SubSeq(ds, 1, Len(ds) - 1), m) + digitVal(ds[Len(ds)])) % m

parseIntRem(s, m) ==
    LET t == skipWhitespace(s)
        neg == Len(t) > 0 /\ t[1] = "-"
        u == IF Len(t) > 0 /\ t[1] \in {"-", "+"} THEN Tail(t) ELSE t
        ds == digitPrefix(u)
    IN  IF Len(ds) = 0 THEN NaN
        ELSE IF neg THEN Num(0 - digitsRem(ds, m)) ELSE Num(digitsRem(ds, m))

\* Mutant: a checking part that is a multiple of 97 keeps the remainder 0.
checkBelgianBBANZeroKept(bban) ==
    LET stripped == stripDots(bban)
    IN  strictEq(parseIntRem(substring(stripped, 0, Len(stripped) - 2), 97),
                 parseInt(substring(stripped, Len(stripped) - 2, Len(stripped))))

checkBelgianBBAN(bban) ==
    LET stripped == stripDots(bban)
        checkingRem == parseIntRem(substring(stripped, 0, Len(stripped) - 2), 97)
        checksum == parseInt(substring(stripped, Len(stripped) - 2, Len(stripped)))
        rem == IF strictEq(checkingRem, Num(0)) THEN Num(97) ELSE checkingRem
    IN  strictEq(rem, checksum)

checkCzechSlovakBBAN(bban) ==
    LET weightsPrefix == <<10, 5, 8, 4, 2, 1>>
        weightsSuffix == <<6, 3, 7, 9, 10, 5, 8, 4, 2, 1>>
        controlPrefix == parseInt(charAt(bban, 9))
        controlSuffix == parseInt(charAt(bban, 19))
        prefix == substring(bban, 4, 9)
        suffix == substring(bban, 10, 19)
        rem1 == numRem(weightedSum(prefix, weightsPrefix, Len(prefix)), 11)
        rem2 == numRem(weightedSum(suffix, weightsSuffix, Len(suffix)), 11)
    IN  IF ~strictEq(controlPrefix, control11(rem1)) THEN FALSE
        ELSE strictEq(controlSuffix, control11(rem2))

checkEstonianBBAN(bban) ==
    LET weights == <<7, 1, 3, 7, 1, 3, 7, 1, 3, 7, 1, 3, 7>>
        controlDigit == parseInt(charAt(bban, 15))
        toCheck == substring(bban, 2, 15)
        rem == numRem(weightedSum(toCheck, weights, Len(toCheck)), 10)
    IN  strictEq(controlDigit, controlBase(rem, 10))

checkSpanishBBAN(bban) ==
    LET weightsBankBranch == <<4, 8, 5, 10, 9, 7, 3, 6>>
        weightsAccount == <<1, 2, 4, 8, 5, 10, 9, 7, 3, 6>>
        controlBankBranch == parseInt(charAt(bban, 8))
        controlAccount == parseInt(charAt(bban, 9))
        bankBranch == substring(bban, 0, 8)
        account == substring(bban, 10, 20)
        rem1 == numRem(weightedSum(bankBranch, weightsBankBranch, 8), 11)
        rem2 == numRem(weightedSum(account, weightsAccount, 10), 11)
    IN  IF ~strictEq(controlBankBranch, control11(rem1)) THEN FALSE
        ELSE strictEq(controlAccount, control11(rem2))

\* Mutant: the letters are not replaced.
frenchDigitUnchanged(c) == c

\* The switch of checkFrenchBBAN on one character (iban.ts 564-612): only the
\* codes 65..90 have a case, every other character is kept.
frenchDigit(c) ==
    LET code == charCodeAt0(c)
    IN  IF code < 65 THEN c
        ELSE IF code \in {65, 74} THEN "1"
        ELSE IF code \in {66, 75, 83} THEN "2"
        ELSE IF code \in {67, 76, 84} THEN "3"
        ELSE IF code \in {68, 77, 85} THEN "4"
        ELSE IF code \in {69, 78, 86} THEN "5"
        ELSE IF code \in {70, 79, 87} THEN "6"
        ELSE IF code \in {71, 80, 88} THEN "7"
        ELSE IF code \in {72, 81, 89} THEN "8"
        ELSE IF code \in {73, 82, 90} THEN "9"
        ELSE c

\* Mutant: the letters are replaced as isValidIBANChecksum replaces them, by
\* code - 55.
RECURSIVE lettersAsNumbers(_)
lettersAsNumbers(s) ==
    IF Len(s) = 0 THEN <<>>
    ELSE (IF charCodeAt0(s[1]) >= 65 THEN numToString(charCodeAt0(s[1]) - 55) ELSE <<s[1]>>)
         \o lettersAsNumbers(Tail(s))

checkFrenchBBANUniversalTable(bban) ==
    strictEq(mod97(lettersAsNumbers(stripDots(bban))), Num(0))

checkFrenchBBAN(bban) ==
    LET stripped == stripDots(bban)
        normalized == [i \in 1..Len(stripped) |-> frenchDigit(stripped[i])]
    IN  strictEq(mod97(normalized), Num(0))

\* One round of the loop of checkMod11 on the running value nr.
mod11Round(nr, d) ==
    LET a == numAdd(nr, d)
        b == IF ~strictEq(numRem(a, 10), Num(0)) THEN numRem(a, 10) ELSE a
    IN  numRem(numMul(b, Num(2)), 11)

\* nr after the rounds lo..(hi - 1), entered with nr = start: the rounds of the
\* first half, then those of the second half on what the first half left; a
\* round on NaN leaves NaN.
RECURSIVE mod11Rounds(_, _, _, _)
mod11Rounds(toCheck, lo, hi, start) ==
    IF hi <= lo THEN start
    ELSE IF hi = lo + 1 THEN mod11Round(start, digitAt(toCheck, lo))
    ELSE LET mid == (lo + hi) \div 2
             half == mod11Rounds(toCheck, lo, mid, start)
         IN  IF half.nan THEN NaN ELSE mod11Rounds(toCheck, mid, hi, half)

\* let nr = 10; for (i = 0; i < n; i++) { one round }
mod11Loop(toCheck, n) == mod11Rounds(toCheck, 0, n, Num(10))

checkMod11(toCheck, control) ==
    LET nr == mod11Loop(toCheck, Len(toCheck))
        d == numSub(Num(11), nr)
    IN  strictEq(control, IF strictEq(d, Num(10)) THEN Num(0) ELSE d)

checkCroatianBBAN(bban) ==
    LET controlBankBranch == parseInt(charAt(bban, 6))
        controlAccount == parseInt(charAt(bban, 16))
        bankBranch == substring(bban, 0, 6)
        account == substring(bban, 7, 16)
    IN  checkMod11(bankBranch, controlBankBranch) /\ checkMod11(account, controlAccount)

\* String.prototype.endsWith
endsWith(s, suffix) ==
    Len(s) >= Len(suffix) /\ SubSeq(s, Len(s) - Len(suffix) + 1, Len(s)) = suffix

\* Mutant: the control digit of the bank and branch is not tested.
checkHungarianBBANAccountOnly(bban) ==
    LET weights == <<9, 7, 3, 1, 9, 7, 3, 1, 9, 7, 3, 1, 9, 7, 3>>
        shortAccount == substring(bban, 8, 15)
        longAccount == substring(bban, 8, 23)
        shortRem == numRem(weightedSum(shortAccount, weights, Len(shortAccount)), 10)
        longRem == numRem(weightedSum(longAccount, weights, Len(longAccount)), 10)
    IN  IF endsWith(bban, <<"0", "0", "0", "0", "0", "0", "0", "0">>)
        THEN strictEq(parseInt(charAt(bban, 15)), controlBase(shortRem, 10))
        ELSE strictEq(parseInt(charAt(bban, 23)), controlBase(longRem, 10))

checkHungarianBBAN(bban) ==
    LET weights == <<9, 7, 3, 1, 9, 7, 3, 1, 9, 7, 3, 1, 9, 7, 3>>
        controlDigitBankBranch == parseInt(charAt(bban, 7))
        toCheckBankBranch == substring(bban, 0, 7)
        rem == numRem(weightedSum(toCheckBankBranch, weights, Len(toCheckBankBranch)), 10)
        shortAccount == substring(bban, 8, 15)
        longAccount == substring(bban, 8, 23)
        shortRem == numRem(weightedSum(shortAccount, weights, Len(shortAccount)), 10)
        longRem == numRem(weightedSum(longAccount, weights, Len(longAccount)), 10)
    IN  IF ~strictEq(controlDigitBankBranch, controlBase(rem, 10)) THEN FALSE
        ELSE IF endsWith(bban, <<"0", "0", "0", "0", "0", "0", "0", "0">>)
             THEN strictEq(parseInt(charAt(bban, 15)), controlBase(shortRem, 10))
             ELSE strictEq(parseInt(charAt(bban, 23)), controlBase(longRem, 10))

checkNorwegianBBAN(bban) ==
    LET weights == <<5, 4, 3, 2, 7, 6, 5, 4, 3, 2>>
        stripped == stripDots(bban)
        controlDigit == parseInt(charAt(stripped, 10))
        toCheck == substring(stripped, 0, 10)
        rem == numRem(weightedSum(toCheck, weights, 10), 11)
    IN  strictEq(controlDigit, controlBase(rem, 11))

checkPolishBBAN(bban) ==
    LET weights == <<3, 9, 7, 1, 3, 9, 7>>
        controlDigit == parseInt(charAt(bban, 7))
        toCheck == substring(bban, 0, 7)
        rem == numRem(weightedSum(toCheck, weights, 7), 10)
    IN  strictEq(controlDigit, controlBase(rem, 10))

(***************************************************************************)
(* The country registry (iban.ts 134-404).  A BBAN pattern "^[c]{n}...$" is *)
(* the sequence of its runs <<class, width>>.  The IBANRegistry and SEPA    *)
(* flags are not read by the validator and are left out.                    *)
(***************************************************************************)
countrySpecRows == <<
    [code |-> <<"A", "D">>, chars |-> 24,
     bban_regexp |-> <<<<"0-9", 8>>, <<"A-Z0-9", 12>>>>,
     bban_validation_func |-> "none"],
    [code |-> <<"A", "E">>, chars |-> 23,
     bban_regexp |-> <<<<"0-9", 3>>, <<"0-9", 16>>>>,
     bban_validation_func |-> "none"],
    [code |-> <<"A", "L">>, chars |-> 28,
     bban_regexp |-> <<<<"0-9", 8>>, <<"A-Z0-9", 16>>>>,
     bban_validation_func |-> "none"],
    [code |-> <<"A", "T">>, chars |-> 20,
     bban_regexp |-> <<<<"0-9", 16>>>>,
     bban_validation_func |-> "none"],
    [code |-> <<"A", "Z">>, chars |-> 28,
     bban_regexp |-> <<<<"A-Z", 4>>, <<"A-Z0-9", 20>>>>,
     bban_validation_func |-> "none"],
    [code |-> <<"B", "A">>, chars |-> 20,
     bban_regexp |-> <<<<"0-9", 16>>>>,
     bban_validation_func |-> "checkMod97BBAN"],
    [code |-> <<"B", "E">>, chars |-> 16,
     bban_regexp |-> <<<<"0-9", 12>>>>,
     bban_validation_func |-> "checkBelgianBBAN"],
    [code |-> <<"B", "G">>, chars |-> 22,
     bban_regexp |-> <<<<"A-Z", 4>>, <<"0-9", 6>>, <<"A-Z0-9", 8>>>>,
     bban_validation_func |-> "none"],
    [code |-> <<"B", "H">>, chars |-> 22,
     bban_regexp |-> <<<<"A-Z", 4>>, <<"A-Z0-9", 14>>>>,
     bban_validation_func |-> "none"],
    [code |-> <<"B", "R">>, chars |-> 29,
     bban_regexp |-> <<<<"0-9", 23>>, <<"A-Z", 1>>, <<"A-Z0-9", 1>>>>,
     bban_validation_func |-> "none"],
    [code |-> <<"B", "Y">>, chars |-> 28,
     bban_regexp |-> <<<<"A-Z", 4>>, <<"0-9", 4>>, <<"A-Z0-9", 16>>>>,
     bban_validation_func |-> "none"],
    [code |-> <<"C", "H">>, chars |-> 21,
     bban_regexp |-> <<<<"0-9", 5>>, <<"A-Z0-9", 12>>>>,
     bban_validation_func |-> "none"],
    [code |-> <<"C", "R">>, chars |-> 22,
     bban_regexp |-> <<<<"0-9", 18>>>>,
     bban_validation_func |-> "none"],
    [code |-> <<"C", "Y">>, chars |-> 28,
     bban_regexp |-> <<<<"0-9", 8>>, <<"A-Z0-9", 16>>>>,
     bban_validation_func |-> "none"],
    [code |-> <<"C", "Z">>, chars |-> 24,
     bban_regexp |-> <<<<"0-9", 20>>>>,
     bban_validation_func |-> "checkCzechSlovakBBAN"],
    [code |-> <<"D", "E">>, chars |-> 22,
     bban_regexp |-> <<<<"0-9", 18>>>>,
     bban_validation_func |-> "none"],
    [code |-> <<"D", "K">>, chars |-> 18,
     bban_regexp |-> <<<<"0-9", 14>>>>,
     bban_validation_func |-> "none"],
    [code |-> <<"D", "O">>, chars |-> 28,
     bban_regexp |-> <<<<"A-Z", 4>>, <<"0-9", 20>>>>,
     bban_validation_func |-> "none"],
    [code |-> <<"E", "E">>, chars |-> 20,
     bban_regexp |-> <<<<"0-9", 16>>>>,
     bban_validation_func |-> "checkEstonianBBAN"],
    [code |-> <<"E", "G">>, chars |-> 29,
     bban_regexp |-> <<<<"0-9", 25>>>>,
     bban_validation_func |-> "none"],
    [code |-> <<"E", "S">>, chars |-> 24,
     bban_regexp |-> <<<<"0-9", 20>>>>,
     bban_validation_func |-> "checkSpanishBBAN"],
    [code |-> <<"F", "I">>, chars |-> 18,
     bban_regexp |-> <<<<"0-9", 14>>>>,
     bban_validation_func |-> "none"],
    [code |-> <<"F", "O">>, chars |-> 18,
     bban_regexp |-> <<<<"0-9", 14>>>>,
     bban_validation_func |-> "none"],
    [code |-> <<"F", "R">>, chars |-> 27,
     bban_regexp |-> <<<<"0-9", 10>>, <<"A-Z0-9", 11>>, <<"0-9", 2>>>>,
     bban_validation_func |-> "checkFrenchBBAN"],
    [code |-> <<"G", "B">>, chars |-> 22,
     bban_regexp |-> <<<<"A-Z", 4>>, <<"0-9", 14>>>>,
     bban_validation_func |-> "none"],
    [code |-> <<"G", "E">>, chars |-> 22,
     bban_regexp |-> <<<<"A-Z0-9", 2>>, <<"0-9", 16>>>>,
     bban_validation_func |-> "none"],
    [code |-> <<"G", "I">>, chars |-> 23,
     bban_regexp |-> <<<<"A-Z", 4>>, <<"A-Z0-9", 15>>>>,
     bban_validation_func |-> "none"],
    [code |-> <<"G", "L">>, chars |-> 18,
     bban_regexp |-> <<<<"0-9", 14>>>>,
     bban_validation_func |-> "none"],
    [code |-> <<"G", "R">>, chars |-> 27,
     bban_regexp |-> <<<<"0-9", 7>>, <<"A-Z0-9", 16>>>>,
     bban_validation_func |-> "none"],
    [code |-> <<"G", "T">>, chars |-> 28,
     bban_regexp |-> <<<<"A-Z0-9", 24>>>>,
     bban_validation_func |-> "none"],
    [code |-> <<"H", "R">>, chars |-> 21,
     bban_regexp |-> <<<<"0-9", 17>>>>,
     bban_validation_func |-> "checkCroatianBBAN"],
    [code |-> <<"H", "U">>, chars |-> 28,
     bban_regexp |-> <<<<"0-9", 24>>>>,
     bban_validation_func |-> "checkHungarianBBAN"],
    [code |-> <<"I", "E">>, chars |-> 22,
     bban_regexp |-> <<<<"A-Z0-9", 4>>, <<"0-9", 14>>>>,
     bban_validation_func |-> "none"],
    [code |-> <<"I", "L">>, chars |-> 23,
     bban_regexp |-> <<<<"0-9", 19>>>>,
     bban_validation_func |-> "none"],
    [code |-> <<"I", "S">>, chars |-> 26,
     bban_regexp |-> <<<<"0-9", 22>>>>,
     bban_validation_func |-> "none"],
    [code |-> <<"I", "T">>, chars |-> 27,
     bban_regexp |-> <<<<"A-Z", 1>>, <<"0-9", 10>>, <<"A-Z0-9", 12>>>>,
     bban_validation_func |-> "none"],
    [code |-> <<"J", "O">>, chars |-> 30,
     bban_regexp |-> <<<<"A-Z", 4>>, <<"0-9", 4>>, <<"A-Z0-9", 18>>>>,
     bban_validation_func |-> "none"],
    [code |-> <<"K", "W">>, chars |-> 30,
     bban_regexp |-> <<<<"A-Z", 4>>, <<"A-Z0-9", 22>>>>,
     bban_validation_func |-> "none"],
    [code |-> <<"K", "Z">>, chars |-> 20,
     bban_regexp |-> <<<<"0-9", 3>>, <<"A-Z0-9", 13>>>>,
     bban_validation_func |-> "none"],
    [code |-> <<"L", "B">>, chars |-> 28,
     bban_regexp |-> <<<<"0-9", 4>>, <<"A-Z0-9", 20>>>>,
     bban_validation_func |-> "none"],
    [code |-> <<"L", "C">>, chars |-> 32,
     bban_regexp |-> <<<<"A-Z", 4>>, <<"A-Z0-9", 24>>>>,
     bban_validation_func |-> "none"],
    [code |-> <<"L", "I">>, chars |-> 21,
     bban_regexp |-> <<<<"0-9", 5>>, <<"A-Z0-9", 12>>>>,
     bban_validation_func |-> "none"],
    [code |-> <<"L", "T">>, chars |-> 20,
     bban_regexp |-> <<<<"0-9", 16>>>>,
     bban_validation_func |-> "none"],
    [code |-> <<"L", "U">>, chars |-> 20,
     bban_regexp |-> <<<<"0-9", 3>>, <<"A-Z0-9", 13>>>>,
     bban_validation_func |-> "none"],
    [code |-> <<"L", "V">>, chars |-> 21,
     bban_regexp |-> <<<<"A-Z", 4>>, <<"A-Z0-9", 13>>>>,
     bban_validation_func |-> "none"],
    [code |-> <<"M", "C">>, chars |-> 27,
     bban_regexp |-> <<<<"0-9", 10>>, <<"A-Z0-9", 11>>, <<"0-9", 2>>>>,
     bban_validation_func |-> "checkFrenchBBAN"],
    [code |-> <<"M", "D">>, chars |-> 24,
     bban_regexp |-> <<<<"A-Z0-9", 2>>, <<"A-Z0-9", 18>>>>,
     bban_validation_func |-> "none"],
    [code |-> <<"M", "E">>, chars |-> 22,
     bban_regexp |-> <<<<"0-9", 18>>>>,
     bban_validation_func |-> "checkMod97BBAN"],
    [code |-> <<"M", "K">>, chars |-> 19,
     bban_regexp |-> <<<<"0-9", 3>>, <<"A-Z0-9", 10>>, <<"0-9", 2>>>>,
     bban_validation_func |-> "checkMod97BBAN"],
    [code |-> <<"M", "R">>, chars |-> 27,
     bban_regexp |-> <<<<"0-9", 23>>>>,
     bban_validation_func |-> "none"],
    [code |-> <<"M", "T">>, chars |-> 31,
     bban_regexp |-> <<<<"A-Z", 4>>, <<"0-9", 5>>, <<"A-Z0-9", 18>>>>,
     bban_validation_func |-> "none"],
    [code |-> <<"M", "U">>, chars |-> 30,
     bban_regexp |-> <<<<"A-Z", 4>>, <<"0-9", 19>>, <<"A-Z", 3>>>>,
     bban_validation_func |-> "none"],
    [code |-> <<"N", "L">>, chars |-> 18,
     bban_regexp |-> <<<<"A-Z", 4>>, <<"0-9", 10>>>>,
     bban_validation_func |-> "none"],
    [code |-> <<"N", "O">>, chars |-> 15,
     bban_regexp |-> <<<<"0-9", 11>>>>,
     bban_validation_func |-> "checkNorwegianBBAN"],
    [code |-> <<"P", "K">>, chars |-> 24,
     bban_regexp |-> <<<<"A-Z0-9", 4>>, <<"0-9", 16>>>>,
     bban_validation_func |-> "none"],
    [code |-> <<"P", "L">>, chars |-> 28,
     bban_regexp |-> <<<<"0-9", 24>>>>,
     bban_validation_func |-> "checkPolishBBAN"],
    [code |-> <<"P", "S">>, chars |-> 29,
     bban_regexp |-> <<<<"A-Z0-9", 4>>, <<"0-9", 21>>>>,
     bban_validation_func |-> "none"],
    [code |-> <<"P", "T">>, chars |-> 25,
     bban_regexp |-> <<<<"0-9", 21>>>>,
     bban_validation_func |-> "checkMod97BBAN"],
    [code |-> <<"Q", "A">>, chars |-> 29,
     bban_regexp |-> <<<<"A-Z", 4>>, <<"A-Z0-9", 21>>>>,
     bban_validation_func |-> "none"],
    [code |-> <<"R", "O">>, chars |-> 24,
     bban_regexp |-> <<<<"A-Z", 4>>, <<"A-Z0-9", 16>>>>,
     bban_validation_func |-> "none"],
    [code |-> <<"R", "S">>, chars |-> 22,
     bban_regexp |-> <<<<"0-9", 18>>>>,
     bban_validation_func |-> "checkMod97BBAN"],
    [code |-> <<"S", "A">>, chars |-> 24,
     bban_regexp |-> <<<<"0-9", 2>>, <<"A-Z0-9", 18>>>>,
     bban_validation_func |-> "none"],
    [code |-> <<"S", "E">>, chars |-> 24,
     bban_regexp |-> <<<<"0-9", 20>>>>,
     bban_validation_func |-> "none"],
    [code |-> <<"S", "I">>, chars |-> 19,
     bban_regexp |-> <<<<"0-9", 15>>>>,
     bban_validation_func |-> "checkMod97BBAN"],
    [code |-> <<"S", "K">>, chars |-> 24,
     bban_regexp |-> <<<<"0-9", 20>>>>,
     bban_validation_func |-> "checkCzechSlovakBBAN"],
    [code |-> <<"S", "M">>, chars |-> 27,
     bban_regexp |-> <<<<"A-Z", 1>>, <<"0-9", 10>>, <<"A-Z0-9", 12>>>>,
     bban_validation_func |-> "none"],
    [code |-> <<"T", "N">>, chars |-> 24,
     bban_regexp |-> <<<<"0-9", 20>>>>,
     bban_validation_func |-> "none"],
    [code |-> <<"T", "R">>, chars |-> 26,
     bban_regexp |-> <<<<"0-9", 5>>, <<"A-Z0-9", 17>>>>,
     bban_validation_func |-> "none"],
    [code |-> <<"U", "A">>, chars |-> 29,
     bban_regexp |-> <<<<"0-9", 6>>, <<"A-Z0-9", 19>>>>,
     bban_validation_func |-> "none"],
    [code |-> <<"V", "G">>, chars |-> 24,
     bban_regexp |-> <<<<"A-Z0-9", 4>>, <<"0-9", 16>>>>,
     bban_validation_func |-> "none"],
    [code |-> <<"X", "K">>, chars |-> 20,
     bban_regexp |-> <<<<"0-9", 16>>>>,
     bban_validation_func |-> "none"]
>>

countryCodes == {countrySpecRows[i].code : i \in 1..Len(countrySpecRows)}

\* countrySpecs[countryCode], for a code that has an entry.
countrySpecs ==
    [cc \in countryCodes |->
        countrySpecRows[CHOOSE i \in 1..Len(countrySpecRows) : countrySpecRows[i].code = cc]]

\* spec.bban_validation_func(bban)
callBbanValidationFunc(name, bban) ==
    CASE name = "checkMod97BBAN" -> checkMod97BBAN(bban)
      [] name = "checkBelgianBBAN" -> checkBelgianBBAN(bban)
      [] name = "checkCzechSlovakBBAN" -> checkCzechSlovakBBAN(bban)
      [] name = "checkEstonianBBAN" -> checkEstonianBBAN(bban)
      [] name = "checkSpanishBBAN" -> checkSpanishBBAN(bban)
      [] name = "checkFrenchBBAN" -> checkFrenchBBAN(bban)
      [] name = "checkCroatianBBAN" -> checkCroatianBBAN(bban)
      [] name = "checkHungarianBBAN" -> checkHungarianBBAN(bban)
      [] name = "checkNorwegianBBAN" -> checkNorwegianBBAN(bban)
      [] name = "checkPolishBBAN" -> checkPolishBBAN(bban)

(***************************************************************************)
(* isValidIBAN and isValidIBANChecksum (iban.ts 16-85).                     *)
(***************************************************************************)
\* One character class of a pattern.
inClass(c, class) ==
    CASE class = "0-9" -> c \in DigitChars
      [] class = "A-Z" -> c \in UpperChars
      [] class = "A-Z0-9" -> c \in UpperChars \cup DigitChars

\* Mutant: the pattern has no $, whatever follows the last run is ignored.
RECURSIVE testRunsOpenEnd(_, _)
testRunsOpenEnd(s, runs) ==
    IF Len(runs) = 0 THEN TRUE
    ELSE /\ Len(s) >= runs[1][2]
         /\ \A i \in 1..runs[1][2] : inClass(s[i], runs[1][1])
         /\ testRunsOpenEnd(SubSeq(s, runs[1][2] + 1, Len(s)), Tail(runs))

\* new RegExp(bban_regexp).test(s) for an anchored sequence of runs.
RECURSIVE testRuns(_, _)
testRuns(s, runs) ==
    IF Len(runs) = 0 THEN Len(s) = 0
    ELSE LET class == runs[1][1]
             n == runs[1][2]
         IN  /\ Len(s) >= n
             /\ \A i \in 1..n : inClass(s[i], class)
             /\ testRuns(SubSeq(s, n + 1, Len(s)), Tail(runs))

\* /^[A-Z]{2}[0-9]{2}[A-Z0-9]+$/.test(iban)
testShape(iban) ==
    /\ Len(iban) >= 5
    /\ \A i \in 1..2 : iban[i] \in UpperChars
    /\ \A i \in 3..4 : iban[i] \in DigitChars
    /\ \A i \in 5..Len(iban) : iban[i] \in UpperChars \cup DigitChars

\* /^[0-9]{2}$/.test(s)
testTwoDigits(s) == Len(s) = 2 /\ \A i \in 1..2 : s[i] \in DigitChars

\* Mutant: the string is not upper-cased.
normalizeKeepingCase(s) == stripFormatting(s)

\* value.replace(/[\s-]/g, "").toUpperCase()
normalizeIBAN(s) == toUpperCase(stripFormatting(s))

\* The map callback of isValidIBANChecksum on one character.
checksumDigits(c) ==
    LET code == charCodeAt0(c)
    IN  IF code >= 65 THEN numToString(code - 55) ELSE <<c>>

RECURSIVE joinDigits(_)
joinDigits(s) ==
    IF Len(s) = 0 THEN <<>>
    ELSE IF Len(s) = 1 THEN checksumDigits(s[1])
    ELSE joinDigits(SubSeq(s, 1, Len(s) \div 2))
             \o joinDigits(SubSeq(s, (Len(s) \div 2) + 1, Len(s)))

\* The numeric string isValidIBANChecksum hands to mod97.
numericString(iban) == joinDigits(sliceFrom(iban, 4) \o slice(iban, 0, 4))

\* Mutant: any remainder the calculator returns is accepted.
isValidIBANChecksumAnyRemainder(iban) == ~mod97(numericString(iban)).nan

\* Mutant: the remainder is compared with 1 and with 2.
isValidIBANChecksumOneOrTwo(iban) ==
    \/ strictEq(mod97(numericString(iban)), Num(1))
    \/ strictEq(mod97(numericString(iban)), Num(2))

isValidIBANChecksum(iban) == strictEq(mod97(numericString(iban)), Num(1))

\* The values of JavaScript the model hands to isValidIBAN.
StringValue(s) == [type |-> "string", str |-> s, num |-> 0]

NullValue == [type |-> "null", str |-> <<>>, num |-> 0]

UndefinedValue == [type |-> "undefined", str |-> <<>>, num |-> 0]

NumberValue(n) == [type |-> "number", str |-> <<>>, num |-> n]

ObjectValue == [type |-> "object", str |-> <<>>, num |-> 0]

\* !value
falsy(value) ==
    CASE value.type = "string" -> Len(value.str) = 0
      [] value.type = "number" -> value.num = 0
      [] value.type = "object" -> FALSE
      [] OTHER -> TRUE

\* const spec = countrySpecs[countryCode], and whether line 31 lets it pass:
\* every entry of the registry has a pattern and a length, so an entry passes
\* and a missing entry (undefined) does not.  Mutant: without an exact match,
\* an entry that shares the first letter is taken.
lookupSpecFirstLetter(countryCode) ==
    IF countryCode \in countryCodes
    THEN [found |-> TRUE, spec |-> countrySpecs[countryCode]]
    ELSE IF \E k \in countryCodes : k[1] = countryCode[1]
    THEN [found |-> TRUE,
          spec |-> countrySpecs[CHOOSE k \in countryCodes : k[1] = countryCode[1]]]
    ELSE [found |-> FALSE, spec |-> <<>>]

lookupSpec(countryCode) ==
    IF countryCode \in DOMAIN registry
    THEN [found |-> TRUE, spec |-> registry[countryCode]]
    ELSE [found |-> FALSE, spec |-> <<>>]

\* Lines 44-45: the country has a checksum function and it rejects the BBAN.
\* Mutant: the function is never called.
nationalCheckSkipped(spec, bban) == FALSE

nationalCheckFails(spec, bban) ==
    /\ spec.bban_validation_func # "none"
    /\ ~callBbanValidationFunc(spec.bban_validation_func, bban)

\* Lines 23-48, on the normalized string: "true" or "false".
validateNormalized(iban) ==
    LET countryCode == slice(iban, 0, 2)
        bban == sliceFrom(iban, 4)
        entry == lookupSpec(countryCode)
        spec == entry.spec
    IN  IF Len(iban) < 15 \/ Len(iban) > 34 THEN "false"
        ELSE IF ~testShape(iban) THEN "false"
        ELSE IF ~entry.found THEN "false"
        ELSE IF spec.chars # Len(iban) THEN "false"
        ELSE IF ~testTwoDigits(slice(iban, 2, 4)) THEN "false"
        ELSE IF ~testRuns(bban, spec.bban_regexp) THEN "false"
        ELSE IF nationalCheckFails(spec, bban) THEN "false"
        ELSE IF isValidIBANChecksum(iban) THEN "true" ELSE "false"

\* Mutant: the normalized string is cut to the country's length before it is
\* checked, so that what follows a valid IBAN is ignored.
validateStringTruncating(s) ==
    LET iban == normalizeIBAN(s)
        countryCode == slice(iban, 0, 2)
    IN  IF countryCode \in countryCodes
        THEN validateNormalized(slice(iban, 0, countrySpecs[countryCode].chars))
        ELSE validateNormalized(iban)

\* Lines 20-48, on a string.
validateString(s) == validateNormalized(normalizeIBAN(s))

\* Lines 20-48 on a value that passed the guard, as the try block completes:
\* "true", "false" or "throw" (value.replace is a TypeError on a value that is
\* no string).
afterGuard(value) ==
    IF value.type # "string" THEN "throw" ELSE validateString(value.str)

\* Mutant: neither the typeof test nor the try/catch.
isValidIBANUnguarded(value) ==
    IF falsy(value) THEN "false" ELSE afterGuard(value)

\* The countrySpecs object after a call of isValidIBAN(value): the function
\* reads countrySpecs[countryCode] and the entry's chars, bban_regexp and
\* bban_validation_func, builds a new RegExp from the pattern string on every
\* call, and assigns to none of them.  Mutant: the length test of line 34 is
\* written as an assignment, if (spec.chars = iban.length).
countrySpecsAfterAssigning(value) ==
    IF falsy(value) \/ value.type # "string" THEN registry
    ELSE LET iban == normalizeIBAN(value.str)
             countryCode == slice(iban, 0, 2)
         IN  IF Len(iban) < 15 \/ Len(iban) > 34 \/ ~testShape(iban)
                \/ countryCode \notin DOMAIN registry
             THEN registry
             ELSE [registry EXCEPT ![countryCode].chars = Len(iban)]

countrySpecsAfter(value) == registry

\* The whole function: the guard of line 18, the rest of the try block, and the
\* catch clause that turns a throw into false.
isValidIBAN(value) ==
    LET completion == IF falsy(value) \/ value.type # "string" THEN "false"
                      ELSE afterGuard(value)
    IN  IF completion = "throw" THEN "false" ELSE completion

(***************************************************************************)
(* The inputs of the model.                                                 *)
(***************************************************************************)
\* "NL91ABNA0417164300": test fixture (Netherlands), accepted
NL_valid == <<"N", "L", "9", "1", "A", "B", "N", "A", "0", "4", "1", "7", "1", "6", "4", "3", "0", "0">>

\* "BE68539007547034": test fixture (Belgium), accepted
BE_valid == <<"B", "E", "6", "8", "5", "3", "9", "0", "0", "7", "5", "4", "7", "0", "3", "4">>

\* "NO9386011117947": test fixture (Norway), accepted
NO_valid == <<"N", "O", "9", "3", "8", "6", "0", "1", "1", "1", "1", "7", "9", "4", "7">>

\* "FR1420041010050500013M02606": test fixture (France), accepted
FR_valid == <<"F", "R", "1", "4", "2", "0", "0", "4", "1", "0", "1", "0", "0", "5", "0", "5", "0", "0", "0", "1", "3", "M", "0", "2", "6", "0", "6">>

\* "ES9121000418450200051332": test fixture (Spain), accepted
ES_valid == <<"E", "S", "9", "1", "2", "1", "0", "0", "0", "4", "1", "8", "4", "5", "0", "2", "0", "0", "0", "5", "1", "3", "3", "2">>

\* "PT50000201231234567890154": test fixture (Portugal), accepted
PT_valid == <<"P", "T", "5", "0", "0", "0", "0", "2", "0", "1", "2", "3", "1", "2", "3", "4", "5", "6", "7", "8", "9", "0", "1", "5", "4">>

\* "NL91ABNA0417164301": test fixture, wrong last digit
NL_wrong == <<"N", "L", "9", "1", "A", "B", "N", "A", "0", "4", "1", "7", "1", "6", "4", "3", "0", "1">>

\* "BE68539007547035": test fixture, wrong Belgian checksum
BE_wrong == <<"B", "E", "6", "8", "5", "3", "9", "0", "0", "7", "5", "4", "7", "0", "3", "5">>

\* "NO9386011117948": test fixture, wrong Norwegian checksum
NO_wrong == <<"N", "O", "9", "3", "8", "6", "0", "1", "1", "1", "1", "7", "9", "4", "8">>

\* "NL91 ABNA 0417 1643 00": test fixture, formatted with spaces
NL_spaced == <<"N", "L", "9", "1", " ", "A", "B", "N", "A", " ", "0", "4", "1", "7", " ", "1", "6", "4", "3", " ", "0", "0">>

\* "BE68-5390-0754-7034": a valid IBAN formatted with hyphens
BE_hyphened == <<"B", "E", "6", "8", "-", "5", "3", "9", "0", "-", "0", "7", "5", "4", "-", "7", "0", "3", "4">>

\* "nl91abna0417164300": test fixture, lower case
NL_lower == <<"n", "l", "9", "1", "a", "b", "n", "a", "0", "4", "1", "7", "1", "6", "4", "3", "0", "0">>

\* "XX1234567890123456": test fixture, unsupported country
XX_test == <<"X", "X", "1", "2", "3", "4", "5", "6", "7", "8", "9", "0", "1", "2", "3", "4", "5", "6">>

\* "ZZ9876543210987654": test fixture, unsupported country
ZZ_test == <<"Z", "Z", "9", "8", "7", "6", "5", "4", "3", "2", "1", "0", "9", "8", "7", "6", "5", "4">>

\* "XX831234567890123456": unsupported country, universal checksum 1
XX_mod97 == <<"X", "X", "8", "3", "1", "2", "3", "4", "5", "6", "7", "8", "9", "0", "1", "2", "3", "4", "5", "6">>

\* "ZZ38ABNA0417164300": unsupported country, universal checksum 1
ZZ_mod97 == <<"Z", "Z", "3", "8", "A", "B", "N", "A", "0", "4", "1", "7", "1", "6", "4", "3", "0", "0">>

\* "BE41539007547035": universal checksum 1, Belgian checksum wrong
BE_national == <<"B", "E", "4", "1", "5", "3", "9", "0", "0", "7", "5", "4", "7", "0", "3", "5">>

\* "NO6686011117948": universal checksum 1, Norwegian checksum wrong
NO_national == <<"N", "O", "6", "6", "8", "6", "0", "1", "1", "1", "1", "7", "9", "4", "8">>

\* "NL58ABNA041716430": universal checksum 1, one character short
NL_short == <<"N", "L", "5", "8", "A", "B", "N", "A", "0", "4", "1", "7", "1", "6", "4", "3", "0">>

\* "NL251BNA0417164300": universal checksum 1, BBAN pattern fails
NL_pattern == <<"N", "L", "2", "5", "1", "B", "N", "A", "0", "4", "1", "7", "1", "6", "4", "3", "0", "0">>

\* "NL**ABNA0417164300": test fixture, check digits not numeric
NL_stars == <<"N", "L", "*", "*", "A", "B", "N", "A", "0", "4", "1", "7", "1", "6", "4", "3", "0", "0">>

\* "NL91": test fixture, country and check digits only
NL91 == <<"N", "L", "9", "1">>

\* "   ": test fixture, only spaces
Blank == <<" ", " ", " ">>

\* "": test fixture, the empty string
Empty == <<>>

\* "MK75001AAAAAAAAAA00": universal checksum 1, letters in a BBAN that
\* checkMod97BBAN reads
MK_letters == <<"M", "K", "7", "5", "0", "0", "1", "A", "A", "A", "A", "A", "A", "A", "A", "A", "A", "0", "0">>

ReferenceStrings ==
    {NL_valid, BE_valid, NO_valid, FR_valid, ES_valid, PT_valid,
     NL_wrong, BE_wrong, NO_wrong, NL_spaced, BE_hyphened, NL_lower,
     XX_test, ZZ_test, XX_mod97, ZZ_mod97, BE_national, NO_national,
     NL_short, NL_pattern, NL_stars, NL91, Blank, Empty, MK_letters}

\* null, undefined, 12345, 0 and an object: what the tests hand in besides strings.
OtherValues == {NullValue, UndefinedValue, NumberValue(12345), NumberValue(0), ObjectValue}

BaseInputs == {StringValue(s) : s \in ReferenceStrings} \cup OtherValues

\* The separators an edit inserts, the letters and digits an edit adds.
Separators == {" ", "-"}

AddedChars == {"0", "7", "A", "x"}

\* How many separators, and how many changes of case, are applied to one base.
MaxSeparators == 2

MaxCaseEdits == 2

insertAt(s, pos, c) == SubSeq(s, 1, pos) \o <<c>> \o SubSeq(s, pos + 1, Len(s))

removeAt(s, pos) == SubSeq(s, 1, pos - 1) \o SubSeq(s, pos + 1, Len(s))

replaceAt(s, pos, c) == [s EXCEPT ![pos] = c]

swapCase(c) == IF c \in LowerChars THEN upperOf[c] ELSE lowerOf[c]

(***************************************************************************)
(* The validator as a state machine: a call of isValidIBAN on the input,   *)
(* and calls on the inputs derived from one already validated.              *)
(***************************************************************************)
InitIban ==
    /\ input \in BaseInputs
    /\ output = "none"
    /\ base = input
    /\ baseOutput = "none"
    /\ edit = "none"
    /\ edits = 0
    /\ editChar = ""
    /\ editPos = 0
    /\ registry = countrySpecs

InitIbanIdle ==
    /\ input = NullValue
    /\ output = "none"
    /\ base = NullValue
    /\ baseOutput = "none"
    /\ edit = "none"
    /\ edits = 0
    /\ editChar = ""
    /\ editPos = 0
    /\ registry = countrySpecs

InitMod97Idle ==
    /\ numStr = <<>>
    /\ appended = 0
    /\ remainder = <<>>
    /\ lastChunk = <<>>
    /\ lastChunkNum = NaN
    /\ pc = "input"
    /\ ret = NaN

InitNatIdle ==
    /\ natFunc = "none"
    /\ natArg = <<>>
    /\ natAppended = 0
    /\ natRet = "none"

InitDeferIdle ==
    /\ deferFunc = "none"
    /\ res = <<>>
    /\ env = <<>>
    /\ deferCalled = FALSE
    /\ executed = FALSE
    /\ listeners = {}
    /\ fired = <<>>
    /\ taskQueue = <<>>
    /\ fnRuns = 0
    /\ fnBehaviour = "returns"
    /\ outcomes = <<>>

InitTimerIdle ==
    /\ clock = 0
    /\ wait = 0
    /\ timer = <<>>
    /\ last = 0
    /\ history = <<>>

InitBase36Idle ==
    /\ identifier = <<>>
    /\ config = <<>>
    /\ encoded = <<>>
    /\ decoded = <<>>

InitScrambleIdle ==
    /\ scrValue = <<>>
    /\ scrSecret = <<>>
    /\ scrambled = <<>>
    /\ descrambled = <<>>
    /\ scrSecret2 = <<>>
    /\ scrambled2 = <<>>

InitNifIdle ==
    /\ nifInput = NullValue
    /\ nifEdits = 0
    /\ nifEditPos = 0
    /\ nifOutput = "none"

InitStagesIdle ==
    /\ callValue = NullValue
    /\ callEdited = FALSE
    /\ stage = "idle"
    /\ trace = <<>>
    /\ callIban = <<>>
    /\ callSpec = [found |-> FALSE, spec |-> <<>>]
    /\ invoked = <<>>
    /\ returned = "none"

InitFamilyIdle ==
    /\ bbanCountry = <<>>
    /\ bbanText = <<>>
    /\ bbanEdits = 0
    /\ bbanEditPos = 0
    /\ bbanRet = "none"

\* Every component but the named one is idle.
InitPairIdle ==
    /\ pairCountry = <<>>
    /\ pairBban = <<>>
    /\ pairFirst = -1
    /\ pairSecond = -1
    /\ pairFirstRet = "none"
    /\ pairSecondRet = "none"

InitIdleExcept(component) ==
    /\ IF component = "iban" THEN TRUE ELSE InitIbanIdle
    /\ IF component = "mod97" THEN TRUE ELSE InitMod97Idle
    /\ IF component = "national" THEN TRUE ELSE InitNatIdle
    /\ IF component = "defer" THEN TRUE ELSE InitDeferIdle
    /\ IF component = "timer" THEN TRUE ELSE InitTimerIdle
    /\ IF component = "base36" THEN TRUE ELSE InitBase36Idle
    /\ IF component = "scramble" THEN TRUE ELSE InitScrambleIdle
    /\ IF component = "nif" THEN TRUE ELSE InitNifIdle
    /\ IF component = "stages" THEN TRUE ELSE InitStagesIdle
    /\ IF component = "family" THEN TRUE ELSE InitFamilyIdle
    /\ IF component = "pairs" THEN TRUE ELSE InitPairIdle

Init == InitIban /\ InitIdleExcept("iban")

\* isValidIBAN(input)
Call ==
    /\ output = "none"
    /\ output' = isValidIBAN(input)
    /\ registry' = countrySpecsAfter(input)
    /\ UNCHANGED <<input, base, baseOutput, edit, edits, editChar, editPos>>
    /\ UNCHANGED nonIbanVars

\* The next input is derived from a string that was validated, and validated
\* in turn: isValidIBAN(s).
Edited(kind, s, c, pos) ==
    /\ input' = StringValue(s)
    /\ editPos' = pos
    /\ output' = isValidIBAN(StringValue(s))
    /\ registry' = countrySpecsAfter(StringValue(s))
    /\ edit' = kind
    /\ editChar' = c
    /\ IF edit = "none"
       THEN base' = input /\ baseOutput' = output /\ edits' = 1
       ELSE UNCHANGED <<base, baseOutput>> /\ edits' = edits + 1
    /\ UNCHANGED nonIbanVars

CanEdit == output # "none" /\ input.type = "string"

\* One of the two check digits (3rd or 4th character) becomes another digit.
ReplaceCheckDigit(pos, d) ==
    /\ CanEdit /\ edit = "none"
    /\ pos \in {3, 4} /\ Len(input.str) >= 4
    /\ input.str[pos] \in DigitChars /\ d # input.str[pos]
    /\ Edited("checkDigit", replaceAt(input.str, pos, d), d, pos)

\* A space or hyphen is inserted after the first pos characters; the
\* separators of one input are inserted from left to right.
InsertSeparator(pos, sep) ==
    /\ CanEdit /\ edit \in {"none", "separator"}
    /\ edits < MaxSeparators
    /\ pos \in editPos..Len(input.str)
    /\ Edited("separator", insertAt(input.str, pos, sep), sep, pos + 1)

\* The letter at pos changes case; the letters of one input are changed from
\* left to right.
ToggleCase(pos) ==
    /\ CanEdit /\ edit \in {"none", "case"}
    /\ edits < MaxCaseEdits
    /\ pos \in (editPos + 1)..Len(input.str)
    /\ input.str[pos] \in UpperChars \cup LowerChars
    /\ Edited("case", replaceAt(input.str, pos, swapCase(input.str[pos])), input.str[pos], pos)

\* Every letter becomes lower case, or every letter upper case.
SetCase(lower) ==
    /\ CanEdit /\ edit \in {"none", "case"}
    /\ edits < MaxCaseEdits
    /\ Edited("case", IF lower THEN toLowerCase(input.str) ELSE toUpperCase(input.str),
              "", editPos)

\* The character at pos is removed.
RemoveChar(pos) ==
    /\ CanEdit /\ edit = "none"
    /\ pos \in 1..Len(input.str)
    /\ Edited("remove", removeAt(input.str, pos), input.str[pos], pos)

\* A letter or digit is added after the first pos characters.
AddChar(pos, c) ==
    /\ CanEdit /\ edit = "none"
    /\ pos \in 0..Len(input.str)
    /\ Edited("add", insertAt(input.str, pos, c), c, pos + 1)

MaxInputLen == 40

Next ==
    \/ Call
    \/ \E pos \in {3, 4}, d \in DigitChars : ReplaceCheckDigit(pos, d)
    \/ \E pos \in 0..MaxInputLen, sep \in Separators : InsertSeparator(pos, sep)
    \/ \E pos \in 1..MaxInputLen : ToggleCase(pos)
    \/ \E lower \in BOOLEAN : SetCase(lower)
    \/ \E pos \in 1..MaxInputLen : RemoveChar(pos)
    \/ \E pos \in 0..MaxInputLen, c \in AddedChars : AddChar(pos, c)

Spec == Init /\ [][Next]_vars

(***************************************************************************)
(* mod97 as a state machine: the argument is built from a seed, then the    *)
(* loop runs one iteration per step.                                        *)
(***************************************************************************)
\* "101123100417164300232191": what isValidIBANChecksum hands over for NL_valid
SeedIban == numericString(NL_valid)

\* "98765432"
SeedDigits == <<"9", "8", "7", "6", "5", "4", "3", "2">>

\* "12A45678"
SeedLetter == <<"1", "2", "A", "4", "5", "6", "7", "8">>

\* The seeds: the first 0, 4, .. 24 digits of SeedIban, SeedDigits, SeedLetter.
Mod97Seeds ==
    {SubSeq(SeedIban, 1, 4 * k) : k \in 0..6} \cup {SeedDigits, SeedLetter}

\* The characters appended to a seed, and how many of them.
Mod97Alphabet == {"0", "1", "9", "A", "-"}

MaxAppended == 3

InitMod97 ==
    /\ InitIdleExcept("mod97")
    /\ numStr \in Mod97Seeds
    /\ appended = 0
    /\ remainder = <<>>
    /\ lastChunk = <<>>
    /\ lastChunkNum = NaN
    /\ pc = "input"
    /\ ret = NaN

Mod97Append(c) ==
    /\ pc = "input"
    /\ appended < MaxAppended
    /\ numStr' = Append(numStr, c)
    /\ appended' = appended + 1
    /\ UNCHANGED <<remainder, lastChunk, lastChunkNum, pc, ret>>
    /\ UNCHANGED nonMod97Vars

\* let remainder = numStr
Mod97Enter ==
    /\ pc = "input"
    /\ remainder' = numStr
    /\ pc' = "loop"
    /\ UNCHANGED <<numStr, appended, lastChunk, lastChunkNum, ret>>
    /\ UNCHANGED nonMod97Vars

\* One iteration of while (remainder.length > 2)
Mod97Loop ==
    /\ pc = "loop"
    /\ Len(remainder) > 2
    /\ lastChunk' = mod97Chunk(remainder)
    /\ lastChunkNum' = parseInt(mod97Chunk(remainder))
    /\ LET it == mod97Iter(remainder)
       IN  IF it.nan
           THEN ret' = NaN /\ pc' = "done" /\ UNCHANGED remainder
           ELSE remainder' = it.rem /\ UNCHANGED <<pc, ret>>
    /\ UNCHANGED <<numStr, appended>>
    /\ UNCHANGED nonMod97Vars

\* return parseInt(remainder, 10) % 97
Mod97Return ==
    /\ pc = "loop"
    /\ Len(remainder) <= 2
    /\ ret' = mod97Final(remainder)
    /\ pc' = "done"
    /\ UNCHANGED <<numStr, appended, remainder, lastChunk, lastChunkNum>>
    /\ UNCHANGED nonMod97Vars

NextMod97 ==
    \/ \E c \in Mod97Alphabet : Mod97Append(c)
    \/ Mod97Enter
    \/ Mod97Loop
    \/ Mod97Return

SpecMod97 == InitMod97 /\ [][NextMod97]_vars

(***************************************************************************)
(* The national checksum functions called on their own, with any string.    *)
(***************************************************************************)
\* The two UTF-16 code units of one character outside the basic plane.
HighSurrogate == "U+D83D"

LowSurrogate == "U+DE00"

\* Array.from(s).length < s.length: Array.from iterates by code point, so a
\* surrogate pair becomes one element.
hasSurrogatePair(s) ==
    \E i \in 1..(Len(s) - 1) : s[i] = HighSurrogate /\ s[i + 1] = LowSurrogate

\* The while loop of mod97 never exits: an iteration leaves the working string
\* as it found it ("-12": the chunk parses to -12, and -12 % 97 is -12).
RECURSIVE mod97Diverges(_)
mod97Diverges(s) ==
    IF Len(s) > 2
    THEN LET it == mod97Iter(s)
         IN  IF it.nan THEN FALSE
             ELSE IF it.rem = s THEN TRUE
             ELSE mod97Diverges(it.rem)
    ELSE FALSE

completionOf(b) == IF b THEN "true" ELSE "false"

\* How a call of the named function on bban completes: "true", "false",
\* "throw" (normalized[i] is undefined once i reaches the number of code
\* points, and undefined.charCodeAt is a TypeError) or "hang".
strategyCompletion(name, bban) ==
    CASE name = "checkMod97BBAN" ->
            IF mod97Diverges(stripDots(bban)) THEN "hang"
            ELSE completionOf(checkMod97BBAN(bban))
      [] name = "checkFrenchBBAN" ->
            LET stripped == stripDots(bban)
            IN  IF hasSurrogatePair(stripped) THEN "throw"
                ELSE IF mod97Diverges([i \in 1..Len(stripped) |-> frenchDigit(stripped[i])])
                THEN "hang"
                ELSE completionOf(checkFrenchBBAN(bban))
      [] OTHER -> completionOf(callBbanValidationFunc(name, bban))

\* The functions the registry refers to, and the patterns of the countries
\* that refer to each.
strategyNames ==
    {countrySpecs[cc].bban_validation_func : cc \in countryCodes} \ {"none"}

strategyPatterns(name) ==
    {countrySpecs[cc].bban_regexp :
        cc \in {k \in countryCodes : countrySpecs[k].bban_validation_func = name}}

\* The arguments: a BBAN of a test fixture or the empty string, without its
\* last characters, followed by appended characters.
MaxNatRemoved == 2

MaxNatAppended == 3

NatFixtures == {BE_valid, NO_valid, FR_valid, ES_valid, PT_valid}

NatSeeds ==
    {<<>>} \cup {slice(sliceFrom(f, 4), 0, Len(f) - 4 - k) :
                    f \in NatFixtures, k \in 0..MaxNatRemoved}

NatAlphabet == {"0", "1", "A", "-", " "}

InitNational ==
    /\ InitIdleExcept("national")
    /\ natFunc \in strategyNames
    /\ natArg \in NatSeeds
    /\ natAppended = 0
    /\ natRet = "none"

NatAppend(c) ==
    /\ natRet = "none"
    /\ natAppended < MaxNatAppended
    /\ natArg' = Append(natArg, c)
    /\ natAppended' = natAppended + 1
    /\ UNCHANGED <<natFunc, natRet>>
    /\ UNCHANGED nonNatVars

\* A character outside the basic plane is appended: two code units.
NatAppendPair ==
    /\ natRet = "none"
    /\ natAppended < MaxNatAppended
    /\ natArg' = natArg \o <<HighSurrogate, LowSurrogate>>
    /\ natAppended' = MaxNatAppended
    /\ UNCHANGED <<natFunc, natRet>>
    /\ UNCHANGED nonNatVars

\* natFunc(natArg)
NatCall ==
    /\ natRet = "none"
    /\ natRet' = strategyCompletion(natFunc, natArg)
    /\ UNCHANGED <<natFunc, natArg, natAppended>>
    /\ UNCHANGED nonNatVars

NextNational ==
    \/ \E c \in NatAlphabet : NatAppend(c)
    \/ NatAppendPair
    \/ NatCall

SpecNational == InitNational /\ [][NextNational]_vars

(***************************************************************************)
(* deferAfterResponse and deferAfterResponseNonCritical (func.ts 1801-1895) *)
(* with deferPostReturn and deferNonCritical (func.ts 1746-1794).           *)
(***************************************************************************)
\* The response-like objects: null, or an object with writableEnded, with or
\* without a once method, whose once throws on its throwsAt-th call (0: never).
NullResponse == [isNull |-> TRUE, writableEnded |-> FALSE, hasOnce |-> FALSE, throwsAt |-> 0]

Response(ended, once, throwsAt) ==
    [isNull |-> FALSE, writableEnded |-> ended, hasOnce |-> once, throwsAt |-> throwsAt]

Responses ==
    {NullResponse}
    \cup {Response(ended, FALSE, 0) : ended \in BOOLEAN}
    \cup {Response(ended, TRUE, n) : ended \in BOOLEAN, n \in 0..2}

Environments == [queueMicrotask : BOOLEAN, setImmediate : BOOLEAN]

Events == {"finish", "close"}

\* deferPostReturn(fn) for a function fn: the queue with run added, through
\* queueMicrotask when the runtime has it and Promise.resolve().then if not.
deferPostReturn(queue) ==
    Append(queue, IF env.queueMicrotask THEN "queueMicrotask" ELSE "promise")

\* deferNonCritical(fn): through setImmediate, or setTimeout(run, 0).
deferNonCritical(queue) ==
    Append(queue, IF env.setImmediate THEN "setImmediate" ELSE "setTimeout")

\* The scheduler each of the two functions uses.
scheduleFn(queue) ==
    IF deferFunc = "deferAfterResponse" THEN deferPostReturn(queue)
    ELSE deferNonCritical(queue)

\* What fn does when it is called: it returns (a value or a promise that
\* fulfils), it throws, or it returns a promise that rejects.
FnBehaviours == {"returns", "throws", "rejects"}

\* run() of deferPostReturn and deferNonCritical, as the runtime sees it:
\* try { const result = fn(); swallow(Promise.resolve(result)); } catch {}.
\* A throw ends in the catch clause, a rejection in the handler swallow
\* attaches.
run(behaviour) ==
    CASE behaviour = "throws" -> "caught"
      [] behaviour = "rejects" -> "swallowed"
      [] OTHER -> "completed"

InitDefer ==
    /\ InitIdleExcept("defer")
    /\ deferFunc \in {"deferAfterResponse", "deferAfterResponseNonCritical"}
    /\ res \in Responses
    /\ env \in Environments
    /\ deferCalled = FALSE
    /\ executed = FALSE
    /\ listeners = {}
    /\ fired = <<>>
    /\ taskQueue = <<>>
    /\ fnRuns = 0
    /\ fnBehaviour \in FnBehaviours
    /\ outcomes = <<>>

\* deferFunc(res, fn) with a function fn, from entry to return.
DeferCall ==
    /\ ~deferCalled
    /\ deferCalled' = TRUE
    /\ IF ~res.isNull /\ res.writableEnded
       THEN taskQueue' = scheduleFn(taskQueue) /\ listeners' = listeners
       ELSE IF res.isNull \/ ~res.hasOnce
       THEN taskQueue' = scheduleFn(taskQueue) /\ listeners' = listeners
       ELSE IF res.throwsAt = 1
       THEN \* res.once("finish", ..) throws: the catch clause, executed is false
            taskQueue' = scheduleFn(taskQueue) /\ listeners' = listeners
       ELSE IF res.throwsAt = 2
       THEN \* "finish" is attached, res.once("close", ..) throws
            taskQueue' = scheduleFn(taskQueue) /\ listeners' = {"finish"}
       ELSE taskQueue' = taskQueue /\ listeners' = {"finish", "close"}
    /\ UNCHANGED <<deferFunc, res, env, executed, fired, fnRuns, fnBehaviour, outcomes>>
    /\ UNCHANGED nonDeferVars

\* Mutant: only the listener of finish schedules fn.
EmitFinishOnly(e) ==
    /\ deferCalled
    /\ \A i \in 1..Len(fired) : fired[i] # e
    /\ fired' = Append(fired, e)
    /\ IF e \in listeners
       THEN /\ listeners' = listeners \ {e}
            /\ IF executed \/ e # "finish"
               THEN UNCHANGED <<executed, taskQueue>>
               ELSE executed' = TRUE /\ taskQueue' = scheduleFn(taskQueue)
       ELSE UNCHANGED <<listeners, executed, taskQueue>>
    /\ UNCHANGED <<deferFunc, res, env, deferCalled, fnRuns, fnBehaviour, outcomes>>
    /\ UNCHANGED nonDeferVars

\* The response emits e; a listener attached with once is removed and called:
\* executeOnce.
Emit(e) ==
    /\ deferCalled
    /\ \A i \in 1..Len(fired) : fired[i] # e
    /\ fired' = Append(fired, e)
    /\ IF e \in listeners
       THEN /\ listeners' = listeners \ {e}
            /\ IF executed
               THEN UNCHANGED <<executed, taskQueue>>
               ELSE executed' = TRUE /\ taskQueue' = scheduleFn(taskQueue)
       ELSE UNCHANGED <<listeners, executed, taskQueue>>
    /\ UNCHANGED <<deferFunc, res, env, deferCalled, fnRuns, fnBehaviour, outcomes>>
    /\ UNCHANGED nonDeferVars

\* The runtime runs the oldest scheduled run: run().
RunTask ==
    /\ Len(taskQueue) > 0
    /\ taskQueue' = Tail(taskQueue)
    /\ fnRuns' = fnRuns + 1
    /\ outcomes' = Append(outcomes, run(fnBehaviour))
    /\ UNCHANGED <<deferFunc, res, env, deferCalled, executed, listeners, fired,
                   fnBehaviour>>
    /\ UNCHANGED nonDeferVars

NextDefer ==
    \/ DeferCall
    \/ \E e \in Events : Emit(e)
    \/ RunTask

SpecDefer == InitDefer /\ [][NextDefer]_vars

(***************************************************************************)
(* throttle and debounce (func.ts 1-42): time passes in steps of 1 ms, a    *)
(* timeout fires at or after its due time.                                  *)
(***************************************************************************)
\* Date.now() when the function is made: far beyond any wait.
StartTime == 10

\* How long the model follows the function, and how many calls it makes.
MaxElapsed == 6

MaxCalls == 3

Waits == {2, 3}

Args == {"a", "b"}

\* No timeout pending (timer is undefined or null, or t has fired).
NoTimer == [pending |-> FALSE, due |-> 0, arg |-> "none"]

\* setTimeout(callback, delay), the callback closing over the arguments arg.
setTimeout(delay, arg) == [pending |-> TRUE, due |-> clock + delay, arg |-> arg]

CallEvent(arg) == [kind |-> "call", time |-> clock, arg |-> arg]

\* fn.apply(this, args)
ExecEvent(arg) == [kind |-> "exec", time |-> clock, arg |-> arg]

callsMade == Len(SelectSeq(history, LAMBDA ev : ev.kind = "call"))

InitThrottle ==
    /\ InitIdleExcept("timer")
    /\ clock = StartTime
    /\ wait \in Waits
    /\ timer = NoTimer
    /\ last = 0
    /\ history = <<>>

\* 1 ms passes; a timeout that is due may still be pending.
Tick ==
    /\ clock < StartTime + MaxElapsed
    /\ clock' = clock + 1
    /\ UNCHANGED <<wait, timer, last, history>>
    /\ UNCHANGED nonTimerVars

\* A call of the throttled function with the arguments arg.
ThrottledCall(arg) ==
    /\ callsMade < MaxCalls
    /\ LET now == clock
           remaining == wait - (now - last)
       IN  IF remaining <= 0
           THEN /\ last' = now
                /\ history' = history \o <<CallEvent(arg), ExecEvent(arg)>>
                /\ UNCHANGED timer
           ELSE IF ~timer.pending
           THEN /\ timer' = setTimeout(remaining, arg)
                /\ history' = Append(history, CallEvent(arg))
                /\ UNCHANGED last
           ELSE /\ history' = Append(history, CallEvent(arg))
                /\ UNCHANGED <<timer, last>>
    /\ UNCHANGED <<clock, wait>>
    /\ UNCHANGED nonTimerVars

\* The timeout of the throttled function fires.
ThrottleTimeout ==
    /\ timer.pending /\ clock >= timer.due
    /\ last' = clock
    /\ timer' = NoTimer
    /\ history' = Append(history, ExecEvent(timer.arg))
    /\ UNCHANGED <<clock, wait>>
    /\ UNCHANGED nonTimerVars

NextThrottle ==
    \/ Tick
    \/ \E arg \in Args : ThrottledCall(arg)
    \/ ThrottleTimeout

SpecThrottle == InitThrottle /\ [][NextThrottle]_vars

InitDebounce ==
    /\ InitIdleExcept("timer")
    /\ clock = StartTime
    /\ wait \in Waits
    /\ timer = NoTimer
    /\ last = 0
    /\ history = <<>>

\* The timeout a call of the debounced function leaves pending: clearTimeout(t)
\* and t = setTimeout(.., wait).  Mutant: a pending timeout is kept and no new
\* one is set.
debouncedTimerKeepingFirst(arg) ==
    IF timer.pending THEN timer ELSE setTimeout(wait, arg)

debouncedTimer(arg) == setTimeout(wait, arg)

\* A call of the debounced function with the arguments arg.
DebouncedCall(arg) ==
    /\ callsMade < MaxCalls
    /\ timer' = debouncedTimer(arg)
    /\ history' = Append(history, CallEvent(arg))
    /\ UNCHANGED <<clock, wait, last>>
    /\ UNCHANGED nonTimerVars

\* The timeout of the debounced function fires.
DebounceTimeout ==
    /\ timer.pending /\ clock >= timer.due
    /\ timer' = NoTimer
    /\ history' = Append(history, ExecEvent(timer.arg))
    /\ UNCHANGED <<clock, wait, last>>
    /\ UNCHANGED nonTimerVars

NextDebounce ==
    \/ Tick
    \/ \E arg \in Args : DebouncedCall(arg)
    \/ DebounceTimeout

SpecDebounce == InitDebounce /\ [][NextDebounce]_vars

(***************************************************************************)
(* encodeBase36Code and decodeBase36Code (base36.ts).  A bigint is an       *)
(* integer; x & mask with mask = 2^bitSize - 1 is x modulo 2^bitSize.       *)
(***************************************************************************)
RECURSIVE pow2(_)
pow2(n) == IF n = 0 THEN 1 ELSE 2 * pow2(n - 1)

\* a | b and a ^ b on integers that are not negative.
RECURSIVE bitOr(_, _)
bitOr(a, b) ==
    IF a = 0 THEN b
    ELSE IF b = 0 THEN a
    ELSE 2 * bitOr(a \div 2, b \div 2) + (IF a % 2 = 1 \/ b % 2 = 1 THEN 1 ELSE 0)

RECURSIVE bitXor(_, _)
bitXor(a, b) ==
    IF a = 0 THEN b
    ELSE IF b = 0 THEN a
    ELSE 2 * bitXor(a \div 2, b \div 2) + (IF a % 2 # b % 2 THEN 1 ELSE 0)

\* x & mask, also for a negative x (two's complement).
andMask(x, mask) == x % (mask + 1)

\* String.prototype.trim
RECURSIVE trimEnd(_)
trimEnd(s) ==
    IF Len(s) > 0 /\ s[Len(s)] \in WhitespaceChars
    THEN trimEnd(SubSeq(s, 1, Len(s) - 1)) ELSE s

trim(s) == trimEnd(skipWhitespace(s))

\* /^[a-z0-9]+$/i.test(value)
isValidBase36(value) ==
    /\ Len(value) > 0
    /\ \A i \in 1..Len(value) : value[i] \in DigitChars \cup UpperChars \cup LowerChars

\* (value || "").trim()
normalizeInput(value) == trim(value)

\* assertSecret(secret).status
assertSecret(secret) == Len(trim(secret)) >= 12

\* The digit of one character of safeValue in parseBase36BigInt.
base36DigitValue(c) ==
    IF c \in DigitChars THEN charCodeAt0(c) - 48 ELSE charCodeAt0(c) - 87

\* parseBase36BigInt(value).data for a value that passed isValidBase36.
RECURSIVE parseBase36Lower(_)
parseBase36Lower(safeValue) ==
    IF Len(safeValue) = 0 THEN 0
    ELSE parseBase36Lower(SubSeq(safeValue, 1, Len(safeValue) - 1)) * 36
            + base36DigitValue(safeValue[Len(safeValue)])

parseBase36BigInt(value) == parseBase36Lower(toLowerCase(normalizeInput(value)))

\* value.toString(36) of a bigint that is not negative.
base36Digit(d) == IF d < 10 THEN DigitSeq[d + 1] ELSE LowerSeq[d - 9]

RECURSIVE toBase36Lower(_)
toBase36Lower(value) ==
    IF value < 36 THEN <<base36Digit(value)>>
    ELSE toBase36Lower(value \div 36) \o <<base36Digit(value % 36)>>

\* BigInt("0x..") modulo m, digit by digit: the constant is only ever added
\* or subtracted under & mask, and the default one has 37 bits.
RECURSIVE hexRem(_, _)
hexRem(hexDigits, m) ==
    IF Len(hexDigits) = 0 THEN 0
    ELSE (16 * hexRem(SubSeq(hexDigits, 1, Len(hexDigits) - 1), m)
            + base36DigitValue(hexDigits[Len(hexDigits)])) % m

\* DEFAULTS.rotateBits and the digits of DEFAULTS.addConstant, "0x1fd0a5b7c3"
DefaultRotateBits == 17

DefaultAddConstant == <<"1", "f", "d", "0", "a", "5", "b", "7", "c", "3">>

\* getParams(config): status is false when bitSize is not above 0.
getParams(cfg) ==
    IF cfg.bitSize <= 0
    THEN [status |-> FALSE, bitSize |-> 0, rotateBits |-> 0, addConstant |-> 0, mask |-> 0]
    ELSE [status |-> TRUE,
          bitSize |-> cfg.bitSize,
          rotateBits |-> jsRem(jsRem(cfg.rotateBits, cfg.bitSize) + cfg.bitSize, cfg.bitSize),
          addConstant |-> hexRem(cfg.addConstant, pow2(cfg.bitSize)),
          mask |-> pow2(cfg.bitSize) - 1]

RECURSIVE secretKey(_, _, _)
secretKey(safeSecret, mask, key) ==
    IF Len(safeSecret) = 0 THEN key
    ELSE secretKey(Tail(safeSecret), mask,
                   andMask(key * 131 + charCodeAt0(safeSecret[1]), mask))

secretToKey(secret, mask) == secretKey(trim(secret), mask, 0)

rotl(x, r, bitSize, mask) ==
    IF r = 0 THEN andMask(x, mask)
    ELSE andMask(bitOr(x * pow2(r), x \div pow2(bitSize - r)), mask)

rotr(x, r, bitSize, mask) ==
    IF r = 0 THEN andMask(x, mask)
    ELSE andMask(bitOr(x \div pow2(r), x * pow2(bitSize - r)), mask)

Failure(message) == [status |-> FALSE, data |-> <<>>, message |-> message]

Success(data) == [status |-> TRUE, data |-> data, message |-> ""]

encodeBase36Code(id, cfg) ==
    LET in == normalizeInput(id)
        params == getParams(cfg)
        key == secretToKey(cfg.secret, params.mask)
        v1 == andMask(parseBase36BigInt(in), params.mask)
        v2 == bitXor(v1, key)
        v3 == andMask(v2 + params.addConstant, params.mask)
        v4 == rotl(v3, params.rotateBits, params.bitSize, params.mask)
    IN  IF ~assertSecret(cfg.secret) THEN Failure("Missing or weak secret")
        ELSE IF Len(in) = 0 THEN Failure("Identifier is required")
        ELSE IF ~isValidBase36(in) THEN Failure("Identifier must be base36 (0-9, A-Z)")
        ELSE IF ~params.status THEN Failure("bitSize must be greater than 0")
        ELSE Success(toBase36Lower(v4))

decodeBase36Code(code, cfg) ==
    LET in == normalizeInput(code)
        params == getParams(cfg)
        key == secretToKey(cfg.secret, params.mask)
        v1 == andMask(parseBase36BigInt(in), params.mask)
        v2 == rotr(v1, params.rotateBits, params.bitSize, params.mask)
        v3 == andMask(v2 - params.addConstant, params.mask)
        v4 == bitXor(v3, key)
    IN  IF ~assertSecret(cfg.secret) THEN Failure("Missing or weak secret")
        ELSE IF Len(in) = 0 THEN Failure("Code is required")
        ELSE IF ~isValidBase36(in) THEN Failure("Code must be base36 (0-9, a-z)")
        ELSE IF ~params.status THEN Failure("bitSize must be greater than 0")
        ELSE Success(toUpperCase(toBase36Lower(v4)))

\* "super-long-secret-123": the secret of the tests
TestSecret ==
    <<"s", "u", "p", "e", "r", "-", "l", "o", "n", "g", "-",
      "s", "e", "c", "r", "e", "t", "-", "1", "2", "3">>

\* "abcdefghijkl": 12 characters
ShortestSecret == <<"a", "b", "c", "d", "e", "f", "g", "h", "i", "j", "k", "l">>

\* "   secret   ": 12 characters, 6 of them whitespace
PaddedSecret == <<" ", " ", " ", "s", "e", "c", "r", "e", "t", " ", " ", " ">>

Secrets == {TestSecret, ShortestSecret, PaddedSecret}

\* "0x9f4c2b1a7d": the constant of the custom configuration of the tests
TestAddConstant == <<"9", "f", "4", "c", "2", "b", "1", "a", "7", "d">>

\* The configurations: a bigint of MaxBitSize bits is the widest the model
\* computes with.
MaxBitSize == 12

MaxIdLen == 3

BitSizes == {1, 8, MaxBitSize}

RotateBitsValues == {DefaultRotateBits, 0, 3, -1}

Configs ==
    [secret : Secrets, bitSize : BitSizes, rotateBits : RotateBitsValues,
     addConstant : {DefaultAddConstant, TestAddConstant}]

IdAlphabet == {"0", "1", "z", "Z"}

NotReturned == [status |-> FALSE, data |-> <<>>, message |-> "not called"]

InitBase36 ==
    /\ InitIdleExcept("base36")
    /\ identifier = <<>>
    /\ config \in Configs
    /\ encoded = NotReturned
    /\ decoded = NotReturned

\* The identifier gets one more character.
IdAppend(c) ==
    /\ encoded = NotReturned
    /\ Len(identifier) < MaxIdLen
    /\ identifier' = Append(identifier, c)
    /\ UNCHANGED <<config, encoded, decoded>>
    /\ UNCHANGED nonBase36Vars

\* encodeBase36Code(identifier, config)
Encode ==
    /\ encoded = NotReturned
    /\ encoded' = encodeBase36Code(identifier, config)
    /\ UNCHANGED <<identifier, config, decoded>>
    /\ UNCHANGED nonBase36Vars

\* decodeBase36Code(code, config) on the code the encoder returned
Decode ==
    /\ encoded.status
    /\ decoded = NotReturned
    /\ decoded' = decodeBase36Code(encoded.data, config)
    /\ UNCHANGED <<identifier, config, encoded>>
    /\ UNCHANGED nonBase36Vars

NextBase36 ==
    \/ \E c \in IdAlphabet : IdAppend(c)
    \/ Encode
    \/ Decode

SpecBase36 == InitBase36 /\ [][NextBase36]_vars

(***************************************************************************)
(* scrambleString and descrambleString (iban.ts 773-952).  A string is a    *)
(* sequence of UTF-16 code units (0..65535), a binary string one of bytes;  *)
(* Base64 text is a sequence of characters.                                 *)
(***************************************************************************)
Base64Alphabet == UpperSeq \o LowerSeq \o DigitSeq \o <<"+", "/">>

base64Char(n) == Base64Alphabet[n + 1]

base64Index(c) == (CHOOSE i \in 1..64 : Base64Alphabet[i] = c) - 1

\* Buffer.from(binary, "binary").toString("base64"), btoa(binary): three
\* bytes give four characters, the last group is padded with "=".
RECURSIVE base64EncodeBinary(_)
base64EncodeBinary(binary) ==
    IF Len(binary) = 0 THEN <<>>
    ELSE IF Len(binary) = 1
    THEN <<base64Char(binary[1] \div 4), base64Char((binary[1] % 4) * 16), "=", "=">>
    ELSE IF Len(binary) = 2
    THEN <<base64Char(binary[1] \div 4),
           base64Char((binary[1] % 4) * 16 + binary[2] \div 16),
           base64Char((binary[2] % 16) * 4), "=">>
    ELSE <<base64Char(binary[1] \div 4),
           base64Char((binary[1] % 4) * 16 + binary[2] \div 16),
           base64Char((binary[2] % 16) * 4 + binary[3] \div 64),
           base64Char(binary[3] % 64)>>
         \o base64EncodeBinary(SubSeq(binary, 4, Len(binary)))

\* Buffer.from(base64, "base64").toString("binary"), atob(base64), on padded
\* Base64 text.
RECURSIVE base64DecodeToBinary(_)
base64DecodeToBinary(base64) ==
    IF Len(base64) < 4 THEN <<>>
    ELSE LET i1 == base64Index(base64[1])
             i2 == base64Index(base64[2])
             b1 == i1 * 4 + i2 \div 16
         IN  IF base64[3] = "=" THEN <<b1>>
             ELSE LET i3 == base64Index(base64[3])
                      b2 == (i2 % 16) * 16 + i3 \div 4
                  IN  IF base64[4] = "=" THEN <<b1, b2>>
                      ELSE <<b1, b2, (i3 % 4) * 64 + base64Index(base64[4])>>
                           \o base64DecodeToBinary(SubSeq(base64, 5, Len(base64)))

\* secret.charCodeAt(i % secret.length) & 0xff, i counted from 0.  Mutant:
\* the key does not repeat from its first character on, secret.charCodeAt(0).
keyCodeFirstOnly(key, i) == key[1] % 256

keyCode(key, i) == key[(i % Len(key)) + 1] % 256

\* The loop of both functions: String.fromCharCode(charCode ^ keyCode) for
\* every code unit of text.
xorWithKey(text, key) ==
    [i \in 1..Len(text) |-> bitXor(text[i] % 256, keyCode(key, i - 1))]

\* scrambleString(value, secret) on a string value and a string secret.
scrambleString(text, key) ==
    IF Len(key) = 0
    THEN [status |-> FALSE, data |-> <<>>]
    ELSE [status |-> TRUE, data |-> base64EncodeBinary(xorWithKey(text, key))]

\* descrambleString(value, secret) on Base64 text and a string secret.
descrambleString(text, key) ==
    IF Len(key) = 0
    THEN [status |-> FALSE, data |-> <<>>]
    ELSE [status |-> TRUE, data |-> xorWithKey(base64DecodeToBinary(text), key)]

\* The code units of the values ("A", U+00FF, U+20AC) and of the secrets
\* ("1", "2", U+0131, which has the low byte of "1").
ValueUnits == {65, 255, 8364}

SecretUnits == {49, 50, 305}

MaxValueLen == 3

MaxSecretLen == 2

RECURSIVE StringsUpTo(_, _)
StringsUpTo(units, n) ==
    IF n = 0 THEN {<<>>}
    ELSE LET shorter == StringsUpTo(units, n - 1)
         IN  shorter \cup {Append(s, u) : s \in shorter, u \in units}

ScrambleSecrets == StringsUpTo(SecretUnits, MaxSecretLen) \ {<<>>}

NoResult == [status |-> FALSE, data |-> <<"not called">>]

InitScramble ==
    /\ InitIdleExcept("scramble")
    /\ scrValue = <<>>
    /\ scrSecret \in ScrambleSecrets
    /\ scrambled = NoResult
    /\ descrambled = NoResult
    /\ scrSecret2 = scrSecret
    /\ scrambled2 = NoResult

\* The value gets one more code unit.
ValueAppend(u) ==
    /\ scrambled = NoResult
    /\ Len(scrValue) < MaxValueLen
    /\ scrValue' = Append(scrValue, u)
    /\ UNCHANGED <<scrSecret, scrambled, descrambled, scrSecret2, scrambled2>>
    /\ UNCHANGED nonScrambleVars

\* scrambleString(value, secret)
Scramble ==
    /\ scrambled = NoResult
    /\ scrambled' = scrambleString(scrValue, scrSecret)
    /\ UNCHANGED <<scrValue, scrSecret, descrambled, scrSecret2, scrambled2>>
    /\ UNCHANGED nonScrambleVars

\* descrambleString(scrambled.data, secret)
Descramble ==
    /\ scrambled.status
    /\ descrambled = NoResult
    /\ descrambled' = descrambleString(scrambled.data, scrSecret)
    /\ UNCHANGED <<scrValue, scrSecret, scrambled, scrSecret2, scrambled2>>
    /\ UNCHANGED nonScrambleVars

\* scrambleString(value, s) with another secret s
ScrambleOther(s) ==
    /\ scrambled.status
    /\ scrambled2 = NoResult
    /\ s # scrSecret
    /\ scrSecret2' = s
    /\ scrambled2' = scrambleString(scrValue, s)
    /\ UNCHANGED <<scrValue, scrSecret, scrambled, descrambled>>
    /\ UNCHANGED nonScrambleVars

NextScramble ==
    \/ \E u \in ValueUnits : ValueAppend(u)
    \/ Scramble
    \/ Descramble
    \/ \E s \in ScrambleSecrets : ScrambleOther(s)

SpecScramble == InitScramble /\ [][NextScramble]_vars

(***************************************************************************)
(* isPTTaxId (func.ts 1661-1710).                                           *)
(***************************************************************************)
\* String(value) for a string or a number that is not negative.
stringOf(v) == IF v.type = "number" THEN natToString(v.num) ELSE v.str

\* nif.replace(/[^0-9]/g, "")
stripNonDigits(s) == SelectSeq(s, LAMBDA c : c \in DigitChars)

\* /^(\d)\1{8}$/.test(nif) on a string of 9 digits
repeatedDigit(nif) == \A i \in 2..9 : nif[i] = nif[1]

defaultAllowed == {"1", "2", "3", "5", "6", "8", "9"}

\* The loop of lines 1696-1701: what the digits at indexes i..7 add to sum.
RECURSIVE nifSum(_, _)
nifSum(nif, i) ==
    IF i >= 8 THEN 0
    ELSE LET digit == parseInt(<<nif[i + 1]>>).val
             weight == 9 - i
         IN  digit * weight + nifSum(nif, i + 1)

\* mod11 < 2 ? 0 : 11 - mod11.  Mutant: the test is mod11 < 1.
nifCheckDigitBelowOne(mod11) == IF mod11 < 1 THEN 0 ELSE 11 - mod11

nifCheckDigit(mod11) == IF mod11 < 2 THEN 0 ELSE 11 - mod11

\* isPTTaxId(value): "true" or "false".
isPTTaxId(v) ==
    IF v.type \in {"null", "undefined"} THEN "false"
    ELSE LET nif == stripNonDigits(trim(stringOf(v)))
         IN  IF Len(nif) # 9 THEN "false"
             ELSE IF repeatedDigit(nif) THEN "false"
             ELSE IF nif[1] \notin defaultAllowed THEN "false"
             ELSE IF strictEq(Num(nifCheckDigit(nifSum(nif, 0) % 11)),
                              parseInt(<<nif[9]>>))
             THEN "true" ELSE "false"

\* The values: the examples of the README, the identifiers the tests build
\* and reject, two whose remainder is 0 and 1, as strings and as numbers.
NifStrings ==
    { <<"1", "2", "3", "4", "5", "6", "7", "8", "9">>,
      <<"5", "1", "3", "1", "8", "3", "5", "0", "4">>,
      <<"4", "2", "3", "4", "5", "6", "7", "8", "9">>,
      <<"2", "0", "0", "0", "0", "0", "0", "0", "4">>,
      <<"5", "9", "8", "7", "6", "5", "4", "3", "3">>,
      <<"4", "1", "2", "3", "4", "5", "6", "7", "6">>,
      <<"1", "0", "0", "0", "0", "0", "0", "1", "0">>,
      <<"1", "0", "0", "0", "0", "0", "0", "7", "0">>,
      <<"1", "1", "1", "1", "1", "1", "1", "1", "1">>,
      <<"0", "0", "0", "0", "0", "0", "0", "0", "0">>,
      <<"1", "2", "3">>,
      <<"1", "2", "3", "4", "5", "6", "7", "8", "A">>,
      <<"1", "2", "3", " ", "4", "5", "6", " ", "7", "8", "9">>,
      <<"2", "0", "0", " ", "0", "0", "0", "-", "0", "0", "4">> }

NifNumbers == {123456789, 513183504, 100000070, 123}

NifValues ==
    {StringValue(s) : s \in NifStrings} \cup {NumberValue(n) : n \in NifNumbers}
    \cup {NullValue, UndefinedValue}

MaxNifEdits == 2

NifAdded == {"0", "9", " ", "A"}

NifPut == {"0", "1", "4", "7", "9"}

InitNif ==
    /\ InitIdleExcept("nif")
    /\ nifInput \in NifValues
    /\ nifEdits = 0
    /\ nifEditPos = 0
    /\ nifOutput = "none"

\* One character of the string is replaced by a digit, left to right.
NifReplace(pos, d) ==
    /\ nifOutput = "none" /\ nifInput.type = "string"
    /\ nifEdits < MaxNifEdits
    /\ pos \in (nifEditPos + 1)..Len(nifInput.str)
    /\ nifInput.str[pos] # d
    /\ nifInput' = StringValue(replaceAt(nifInput.str, pos, d))
    /\ nifEdits' = nifEdits + 1
    /\ nifEditPos' = pos
    /\ UNCHANGED nifOutput
    /\ UNCHANGED nonNifVars

\* One character is inserted after the first pos characters.
NifInsert(pos, c) ==
    /\ nifOutput = "none" /\ nifInput.type = "string"
    /\ nifEdits = 0
    /\ pos \in 0..Len(nifInput.str)
    /\ nifInput' = StringValue(insertAt(nifInput.str, pos, c))
    /\ nifEdits' = MaxNifEdits
    /\ nifEditPos' = pos + 1
    /\ UNCHANGED nifOutput
    /\ UNCHANGED nonNifVars

\* isPTTaxId(nifInput)
NifCall ==
    /\ nifOutput = "none"
    /\ nifOutput' = isPTTaxId(nifInput)
    /\ UNCHANGED <<nifInput, nifEdits, nifEditPos>>
    /\ UNCHANGED nonNifVars

NextNif ==
    \/ \E pos \in 1..11, d \in NifPut : NifReplace(pos, d)
    \/ \E pos \in 0..11, c \in NifAdded : NifInsert(pos, c)
    \/ NifCall

SpecNif == InitNif /\ [][NextNif]_vars

(***************************************************************************)
(* isValidIBAN statement by statement (iban.ts 16-54): one step per test    *)
(* of the try block, each of which either returns false or falls through    *)
(* to the next line.                                                        *)
(***************************************************************************)
\* The statements of lines 18-48 in source order: the guard (18), the
\* normalization (21), the length bounds and the shape pattern (24-25), the
\* lookup and its test (27-31), the length test (34), the test of the two
\* check digits (37), the BBAN pattern (40-41), the national function (44-45)
\* and the MOD-97 checksum (48).
StageOrder ==
    <<"guard", "normalize", "shape", "lookup", "length", "digits", "pattern",
      "national", "checksum">>

stageAfter(s) ==
    IF s = "checksum" THEN "done"
    ELSE StageOrder[1 + CHOOSE i \in 1..(Len(StageOrder) - 1) : StageOrder[i] = s]

\* Where control goes after the test of stage s: a test that fails is
\* followed by return false.  Mutant: the length test of line 34 has no
\* return.
continuationLengthIgnored(s, passed) ==
    IF passed \/ s = "length" THEN stageAfter(s) ELSE "done"

continuation(s, passed) == IF passed THEN stageAfter(s) ELSE "done"

\* The outcome of the test of stage s on the locals of the call.
stagePasses(s) ==
    LET bban == sliceFrom(callIban, 4)
    IN  CASE s = "guard" -> ~(falsy(callValue) \/ callValue.type # "string")
          [] s = "normalize" -> TRUE
          [] s = "shape" -> ~(Len(callIban) < 15 \/ Len(callIban) > 34) /\ testShape(callIban)
          [] s = "lookup" -> lookupSpec(slice(callIban, 0, 2)).found
          [] s = "length" -> callSpec.spec.chars = Len(callIban)
          [] s = "digits" -> testTwoDigits(slice(callIban, 2, 4))
          [] s = "pattern" -> testRuns(bban, callSpec.spec.bban_regexp)
          [] s = "national" -> ~nationalCheckFails(callSpec.spec, bban)
          [] s = "checksum" -> isValidIBANChecksum(callIban)

\* What the call returns when control leaves stage s.
returnedAfter(s, passed) ==
    IF continuation(s, passed) # "done" THEN "none"
    ELSE IF s = "checksum" /\ passed THEN "true" ELSE "false"

StageInputs == BaseInputs

InitStages ==
    /\ InitIdleExcept("stages")
    /\ callValue \in StageInputs
    /\ callEdited = FALSE
    /\ stage = "idle"
    /\ trace = <<>>
    /\ callIban = <<>>
    /\ callSpec = [found |-> FALSE, spec |-> <<>>]
    /\ invoked = <<>>
    /\ returned = "none"

\* Before the call, a character of the argument is removed.
StageRemoveChar(pos) ==
    /\ stage = "idle" /\ ~callEdited /\ callValue.type = "string"
    /\ pos \in 1..Len(callValue.str)
    /\ callValue' = StringValue(removeAt(callValue.str, pos))
    /\ callEdited' = TRUE
    /\ UNCHANGED <<stage, trace, callIban, callSpec, invoked, returned>>
    /\ UNCHANGED nonStageVars

\* Before the call, a character is added to the argument.
StageAddChar(pos, c) ==
    /\ stage = "idle" /\ ~callEdited /\ callValue.type = "string"
    /\ pos \in 0..Len(callValue.str)
    /\ callValue' = StringValue(insertAt(callValue.str, pos, c))
    /\ callEdited' = TRUE
    /\ UNCHANGED <<stage, trace, callIban, callSpec, invoked, returned>>
    /\ UNCHANGED nonStageVars

\* isValidIBAN(callValue) is entered.
StageEnter ==
    /\ stage = "idle"
    /\ stage' = "guard"
    /\ UNCHANGED <<callValue, callEdited, trace, callIban, callSpec, invoked, returned>>
    /\ UNCHANGED nonStageVars

\* The statement of the current stage runs: its assignments, its test, and
\* the return false that follows a failed test.
StageStep(s) ==
    /\ stage = s
    /\ LET passed == stagePasses(s)
           bban == sliceFrom(callIban, 4)
       IN  /\ trace' = Append(trace, [stage |-> s, passed |-> passed])
           /\ stage' = continuation(s, passed)
           /\ returned' = returnedAfter(s, passed)
           /\ callIban' = IF s = "normalize" THEN normalizeIBAN(callValue.str)
                          ELSE callIban
           /\ callSpec' = IF s = "lookup" THEN lookupSpec(slice(callIban, 0, 2))
                          ELSE callSpec
           /\ invoked' = IF s = "national" /\ callSpec.spec.bban_validation_func # "none"
                         THEN Append(invoked, [func |-> callSpec.spec.bban_validation_func,
                                               bban |-> bban])
                         ELSE invoked
    /\ UNCHANGED <<callValue, callEdited>>
    /\ UNCHANGED nonStageVars

NextStages ==
    \/ \E pos \in 1..MaxInputLen : StageRemoveChar(pos)
    \/ \E pos \in 0..MaxInputLen, c \in AddedChars : StageAddChar(pos, c)
    \/ StageEnter
    \/ \E s \in {StageOrder[i] : i \in 1..Len(StageOrder)} : StageStep(s)

SpecStages == InitStages /\ [][NextStages]_vars

(***************************************************************************)
(* The national function of a country on BBANs that match the country's     *)
(* pattern, as line 44 of isValidIBAN calls it.                             *)
(***************************************************************************)
\* The countries whose entry has a bban_validation_func.
checkedCountries == {cc \in countryCodes : countrySpecs[cc].bban_validation_func # "none"}

\* A BBAN per checked country that its function accepts, and BBANs for the
\* special cases of the functions: a Belgian checking part that is a multiple
\* of 97, a Czech prefix whose weighted sum has remainder 1, a Hungarian
\* account padded with eight zeros.
FamilySeeds ==
    {
      [country |-> <<"B", "A">>,
       bban |-> <<"2", "1", "5", "9", "0", "1", "0", "9", "2", "8", "1", "5", "9", "0", "1", "3">>],
      [country |-> <<"B", "E">>,
       bban |-> <<"4", "4", "9", "5", "0", "0", "3", "2", "4", "9", "6", "6">>],
      [country |-> <<"B", "E">>,
       bban |-> <<"0", "0", "0", "0", "0", "0", "0", "0", "9", "7", "9", "7">>],
      [country |-> <<"C", "Z">>,
       bban |-> <<"5", "6", "1", "1", "6", "5", "8", "3", "6", "3", "7", "4", "5", "3", "6", "0", "4", "0", "5", "2">>],
      [country |-> <<"C", "Z">>,
       bban |-> <<"0", "0", "0", "0", "0", "0", "0", "3", "0", "1", "0", "0", "0", "0", "0", "0", "0", "0", "0", "0">>],
      [country |-> <<"E", "E">>,
       bban |-> <<"3", "2", "1", "3", "4", "8", "2", "8", "7", "7", "3", "2", "5", "5", "3", "6">>],
      [country |-> <<"E", "S">>,
       bban |-> <<"4", "7", "3", "8", "7", "3", "8", "9", "1", "8", "9", "9", "1", "6", "1", "7", "2", "8", "8", "8">>],
      [country |-> <<"F", "R">>,
       bban |-> <<"2", "2", "4", "0", "6", "6", "9", "8", "1", "4", "9", "1", "M", "9", "3", "3", "3", "9", "8", "0", "3", "1", "9">>],
      [country |-> <<"H", "R">>,
       bban |-> <<"0", "6", "3", "7", "7", "8", "3", "4", "2", "8", "1", "8", "5", "6", "2", "2", "7">>],
      [country |-> <<"H", "U">>,
       bban |-> <<"4", "4", "4", "9", "8", "0", "0", "3", "8", "9", "3", "4", "4", "8", "2", "8", "2", "6", "1", "2", "3", "5", "6", "1">>],
      [country |-> <<"M", "C">>,
       bban |-> <<"9", "8", "5", "5", "0", "9", "6", "9", "8", "6", "3", "8", "M", "6", "9", "3", "2", "9", "5", "2", "5", "8", "8">>],
      [country |-> <<"M", "E">>,
       bban |-> <<"3", "0", "9", "8", "6", "5", "6", "7", "5", "3", "3", "1", "5", "0", "4", "6", "9", "6">>],
      [country |-> <<"M", "K">>,
       bban |-> <<"2", "6", "4", "A", "B", "1", "1", "4", "8", "3", "7", "9", "3", "2", "1">>],
      [country |-> <<"N", "O">>,
       bban |-> <<"9", "2", "0", "0", "6", "2", "8", "0", "1", "5", "5">>],
      [country |-> <<"P", "L">>,
       bban |-> <<"4", "4", "8", "5", "5", "3", "9", "6", "1", "9", "0", "3", "6", "8", "4", "3", "8", "7", "0", "4", "3", "1", "9", "1">>],
      [country |-> <<"P", "T">>,
       bban |-> <<"4", "3", "9", "0", "3", "7", "1", "4", "3", "3", "0", "7", "0", "9", "5", "1", "0", "0", "0", "3", "5">>],
      [country |-> <<"R", "S">>,
       bban |-> <<"6", "2", "1", "3", "8", "5", "2", "6", "0", "4", "4", "8", "6", "0", "5", "7", "2", "9">>],
      [country |-> <<"S", "I">>,
       bban |-> <<"3", "1", "5", "0", "4", "6", "1", "6", "3", "8", "8", "6", "2", "0", "6">>],
      [country |-> <<"S", "K">>,
       bban |-> <<"3", "5", "4", "6", "6", "1", "1", "2", "1", "5", "3", "6", "9", "3", "7", "6", "4", "7", "8", "6">>],
      [country |-> <<"H", "U">>,
       bban |-> <<"0", "2", "0", "0", "3", "7", "5", "5", "8", "0", "7", "2", "3", "0", "4", "6", "0", "0", "0", "0", "0", "0", "0", "0">>]
    }

MaxBbanEdits == 2

BbanPut == {"0", "1", "7", "B"}

InitFamily ==
    /\ InitIdleExcept("family")
    /\ \E seed \in FamilySeeds : bbanCountry = seed.country /\ bbanText = seed.bban
    /\ bbanEdits = 0
    /\ bbanEditPos = 0
    /\ bbanRet = "none"

\* A character of the BBAN is replaced, left to right, and the BBAN still
\* matches the country's pattern (line 41 let it pass).
BbanReplace(pos, c) ==
    /\ bbanRet = "none"
    /\ bbanEdits < MaxBbanEdits
    /\ pos \in (bbanEditPos + 1)..Len(bbanText)
    /\ bbanText[pos] # c
    /\ testRuns(replaceAt(bbanText, pos, c), countrySpecs[bbanCountry].bban_regexp)
    /\ bbanText' = replaceAt(bbanText, pos, c)
    /\ bbanEdits' = bbanEdits + 1
    /\ bbanEditPos' = pos
    /\ UNCHANGED <<bbanCountry, bbanRet>>
    /\ UNCHANGED nonFamilyVars

\* spec.bban_validation_func(bban)
BbanCall ==
    /\ bbanRet = "none"
    /\ bbanRet' = completionOf(callBbanValidationFunc(
                       countrySpecs[bbanCountry].bban_validation_func, bbanText))
    /\ UNCHANGED <<bbanCountry, bbanText, bbanEdits, bbanEditPos>>
    /\ UNCHANGED nonFamilyVars

NextFamily ==
    \/ \E pos \in 1..MaxInputLen, c \in BbanPut : BbanReplace(pos, c)
    \/ BbanCall

SpecFamily == InitFamily /\ [][NextFamily]_vars

(***************************************************************************)
(* The two sub-checks of checkSpanishBBAN, checkCzechSlovakBBAN and         *)
(* checkCroatianBBAN (iban.ts 441-481, 517-546, 629-664).                   *)
(***************************************************************************)
\* What each function reads: the weight vectors, the substring(from, to) of
\* each sub-field, the charAt position of each control digit, and the number
\* of iterations of each loop (prefix.length and suffix.length for
\* Czech/Slovak, the literals 8 and 10 for Spain, toCheck.length in
\* checkMod11, which has no weights).
dualFields == [
    checkSpanishBBAN |->
        [weights1 |-> <<4, 8, 5, 10, 9, 7, 3, 6>>, from1 |-> 0, to1 |-> 8, control1 |-> 8,
         weights2 |-> <<1, 2, 4, 8, 5, 10, 9, 7, 3, 6>>, from2 |-> 10, to2 |-> 20,
         control2 |-> 9, rounds1 |-> 8, rounds2 |-> 10],
    checkCzechSlovakBBAN |->
        [weights1 |-> <<10, 5, 8, 4, 2, 1>>, from1 |-> 4, to1 |-> 9, control1 |-> 9,
         weights2 |-> <<6, 3, 7, 9, 10, 5, 8, 4, 2, 1>>, from2 |-> 10, to2 |-> 19,
         control2 |-> 19, rounds1 |-> 5, rounds2 |-> 9],
    checkCroatianBBAN |->
        [weights1 |-> <<>>, from1 |-> 0, to1 |-> 6, control1 |-> 6,
         weights2 |-> <<>>, from2 |-> 7, to2 |-> 16,
         control2 |-> 16, rounds1 |-> 6, rounds2 |-> 9]]

\* The test on one sub-field: control === the digit derived from toCheck.
subCheck(name, toCheck, weights, rounds, control) ==
    IF name = "checkCroatianBBAN" THEN checkMod11(toCheck, control)
    ELSE strictEq(control, control11(numRem(weightedSum(toCheck, weights, rounds), 11)))

\* The first test of the function, whose failure returns false.
firstSubCheck(name, bban) ==
    LET f == dualFields[name]
    IN  subCheck(name, substring(bban, f.from1, f.to1), f.weights1, f.rounds1,
                 parseInt(charAt(bban, f.control1)))

\* The second test, which is the value returned when the first passed.
secondSubCheck(name, bban) ==
    LET f == dualFields[name]
    IN  subCheck(name, substring(bban, f.from2, f.to2), f.weights2, f.rounds2,
                 parseInt(charAt(bban, f.control2)))

(***************************************************************************)
(* isValidIBAN statement by statement on one input per registry entry,      *)
(* written from the entry: the country code, two check digits, and for each *)
(* run of the pattern as many characters of its class as its width.         *)
(***************************************************************************)
\* A string the runs match: digit for [0-9], letter for [A-Z], and for
\* [A-Z0-9] the letter in odd runs and the digit in even ones.
RECURSIVE fillRuns(_, _, _)
fillRuns(runs, digit, letter) ==
    IF Len(runs) = 0 THEN <<>>
    ELSE LET class == runs[Len(runs)][1]
             c == IF class = "0-9" THEN digit
                  ELSE IF class = "A-Z" THEN letter
                  ELSE IF Len(runs) % 2 = 1 THEN letter ELSE digit
         IN  fillRuns(SubSeq(runs, 1, Len(runs) - 1), digit, letter)
             \o [i \in 1..runs[Len(runs)][2] |-> c]

entryInput(cc, digit, letter) ==
    cc \o <<"0", "0">> \o fillRuns(countrySpecs[cc].bban_regexp, digit, letter)

RegistryInputs ==
    {StringValue(entryInput(cc, fill[1], fill[2])) :
        cc \in countryCodes, fill \in {<<"0", "A">>, <<"7", "Z">>}}

InitRegistry ==
    /\ InitIdleExcept("stages")
    /\ callValue \in RegistryInputs
    /\ callEdited = FALSE
    /\ stage = "idle"
    /\ trace = <<>>
    /\ callIban = <<>>
    /\ callSpec = [found |-> FALSE, spec |-> <<>>]
    /\ invoked = <<>>
    /\ returned = "none"

NextRegistry ==
    \/ StageEnter
    \/ \E s \in {StageOrder[i] : i \in 1..Len(StageOrder)} : StageStep(s)

SpecRegistry == InitRegistry /\ [][NextRegistry]_vars

(***************************************************************************)
(* Two calls of isValidIBAN on the same country code and BBAN with          *)
(* different check digits.                                                  *)
(***************************************************************************)
PairSeeds ==
    {
      \* accepted with 91
      [country |-> <<"N", "L">>,
       bban |-> <<"A", "B", "N", "A", "0", "4", "1", "7", "1", "6", "4", "3", "0", "0">>],
      \* accepted with 01 and 98
      [country |-> <<"N", "L">>,
       bban |-> <<"A", "B", "N", "A", "0", "4", "1", "7", "1", "6", "0", "0", "0", "3">>],
      \* accepted with 00 and 97
      [country |-> <<"D", "E">>,
       bban |-> <<"3", "7", "0", "4", "0", "0", "4", "4", "0", "5", "3", "2", "0", "1", "0", "0", "4", "3">>],
      \* accepted with 02 and 99
      [country |-> <<"G", "B">>,
       bban |-> <<"N", "W", "B", "K", "6", "0", "1", "6", "1", "3", "3", "1", "9", "2", "0", "0", "3", "0">>],
      \* accepted with 07
      [country |-> <<"B", "E">>,
       bban |-> <<"4", "4", "9", "5", "0", "0", "3", "2", "4", "9", "6", "6">>],
      \* accepted with 00 and 97
      [country |-> <<"B", "E">>,
       bban |-> <<"0", "0", "0", "0", "1", "4", "2", "5", "4", "2", "4", "9">>],
      \* accepted with 02 and 99
      [country |-> <<"N", "O">>,
       bban |-> <<"9", "2", "0", "0", "0", "0", "0", "1", "6", "2", "9">>],
      \* rejected by checkNorwegianBBAN
      [country |-> <<"N", "O">>,
       bban |-> <<"9", "2", "0", "0", "6", "2", "8", "0", "1", "5", "6">>],
      \* accepted with 50
      [country |-> <<"P", "T">>,
       bban |-> <<"4", "3", "9", "0", "3", "7", "1", "4", "3", "3", "0", "7", "0", "9", "5", "1", "0", "0", "0", "3", "5">>]
    }

CheckDigitPairs == 0..99

\* The IBAN with the two digits of c at positions 3 and 4.
withCheckDigits(cc, c, bban) ==
    cc \o <<DigitSeq[(c \div 10) + 1], DigitSeq[(c % 10) + 1]>> \o bban

InitPairs ==
    /\ InitIdleExcept("pairs")
    /\ \E seed \in PairSeeds : pairCountry = seed.country /\ pairBban = seed.bban
    /\ pairFirst = -1
    /\ pairSecond = -1
    /\ pairFirstRet = "none"
    /\ pairSecondRet = "none"

PairCallFirst(c) ==
    /\ pairFirst = -1
    /\ pairFirst' = c
    /\ pairFirstRet' = isValidIBAN(StringValue(withCheckDigits(pairCountry, c, pairBban)))
    /\ UNCHANGED <<pairCountry, pairBban, pairSecond, pairSecondRet>>
    /\ UNCHANGED nonPairVars

PairCallSecond(c) ==
    /\ pairFirst # -1 /\ pairSecond = -1
    /\ c # pairFirst
    /\ pairSecond' = c
    /\ pairSecondRet' = isValidIBAN(StringValue(withCheckDigits(pairCountry, c, pairBban)))
    /\ UNCHANGED <<pairCountry, pairBban, pairFirst, pairFirstRet>>
    /\ UNCHANGED nonPairVars

NextPairs ==
    \/ \E c \in CheckDigitPairs : PairCallFirst(c)
    \/ \E c \in CheckDigitPairs : PairCallSecond(c)

SpecPairs == InitPairs /\ [][NextPairs]_vars

(***************************************************************************)
(* What the claims are stated with.                                         *)
(***************************************************************************)
IsString(value) == value.type = "string"

Called == output # "none"

AllDigits(s) == \A i \in 1..Len(s) : s[i] \in DigitChars

\* A=10 .. Z=35
letterNumber(c) == 9 + (CHOOSE i \in 1..26 : UpperSeq[i] = c)

\* The number that the characters of s spell, digits as themselves and letters
\* as two digits, modulo 97, continuing from acc.
RECURSIVE isoRemainder(_, _)
isoRemainder(s, acc) ==
    IF Len(s) = 0 \/ acc \notin 0..96 THEN acc
    ELSE isoRemainder(Tail(s),
                      IF s[1] \in DigitChars
                      THEN (10 * acc + digitVal(s[1])) % 97
                      ELSE (100 * acc + letterNumber(s[1])) % 97)

\* The character classes of a pattern, one per position.
RECURSIVE classesOf(_)
classesOf(runs) ==
    IF Len(runs) = 0 THEN <<>>
    ELSE [i \in 1..runs[1][2] |-> runs[1][1]] \o classesOf(Tail(runs))

\* The input with whitespace and hyphens removed, upper-cased.
Normalized(s) ==
    LET kept == SelectSeq(s, LAMBDA c : c \notin {" ", "\t", "-"})
    IN  [i \in 1..Len(kept) |->
            IF kept[i] \in LowerChars
            THEN UpperSeq[CHOOSE k \in 1..26 : LowerSeq[k] = kept[i]]
            ELSE kept[i]]

\* The conditions under which an input is a valid IBAN, stated one by one.
StatedValid(value) ==
    /\ IsString(value)
    /\ Len(value.str) > 0
    /\ LET n == Normalized(value.str)
           cc == SubSeq(n, 1, 2)
           bban == SubSeq(n, 5, Len(n))
       IN  /\ Len(n) >= 15 /\ Len(n) <= 34
           /\ n[1] \in UpperChars /\ n[2] \in UpperChars
           /\ n[3] \in DigitChars /\ n[4] \in DigitChars
           /\ \A i \in 5..Len(n) : n[i] \in UpperChars \cup DigitChars
           /\ cc \in countryCodes
           /\ Len(n) = countrySpecs[cc].chars
           /\ LET classes == classesOf(countrySpecs[cc].bban_regexp)
              IN  /\ Len(bban) = Len(classes)
                  /\ \A i \in 1..Len(bban) : inClass(bban[i], classes[i])
           /\ \/ countrySpecs[cc].bban_validation_func = "none"
              \/ callBbanValidationFunc(countrySpecs[cc].bban_validation_func, bban)
           /\ isoRemainder(bban \o SubSeq(n, 1, 4), 0) = 1

\* The two letters an input starts with once normalized are no key of the registry.
UnknownCountry(value) ==
    /\ IsString(value)
    /\ LET n == Normalized(value.str)
       IN  /\ Len(n) >= 2
           /\ n[1] \in UpperChars /\ n[2] \in UpperChars
           /\ SubSeq(n, 1, 2) \notin countryCodes

\* The national checksum function of the country of a normalized IBAN.
NationalFunc(iban) == countrySpecs[SubSeq(iban, 1, 2)].bban_validation_func

(***************************************************************************)
(* The claims.                                                              *)
(***************************************************************************)
\* C1: isValidIBAN returns true exactly when the input is a non-empty string
\* whose normalized form has a length in 15..34 and the shape two letters, two
\* digits, letters/digits, a country of the registry, that country's length, a
\* BBAN matching the country's pattern in full, a national checksum that
\* passes (when the country has one) and the universal MOD-97 remainder 1.
C1_ExactlyTheStatedConditions ==
    Called => ((output = "true") <=> StatedValid(input))

C1_Witness ==
    /\ output = "true"
    /\ StatedValid(input)
    /\ NationalFunc(Normalized(input.str)) # "none"
    /\ input.str # Normalized(input.str)

\* C2: isValidIBAN returns a boolean on every input and no exception leaves
\* it; what is no string, empty or only whitespace gives false.
C2_TotalBoolean ==
    Called =>
        /\ output \in {"true", "false"}
        /\ (~IsString(input) \/ Normalized(input.str) = <<>>) => output = "false"

C2_Witness ==
    /\ output = "false"
    /\ input \in {NumberValue(12345), ObjectValue}

\* C3: a valid IBAN with one of its two check digits replaced by another
\* digit is rejected.
C3_CheckDigitChangeRejected ==
    (Called /\ edit = "checkDigit" /\ baseOutput = "true") => output = "false"

C3_Witness ==
    /\ edit = "checkDigit"
    /\ baseOutput = "true"
    /\ output = "false"
    /\ input.str[4] # base.str[4]

\* C4: inserting spaces and hyphens, any number of them at any positions,
\* does not change the result.
C4_SeparatorsIgnored ==
    (Called /\ edit = "separator") => output = baseOutput

C4_Witness ==
    /\ edit = "separator"
    /\ edits = 2
    /\ editChar = "-"
    /\ output = "true"
    /\ baseOutput = "true"

\* C5: for an input of ASCII letters, digits, spaces and hyphens the result is
\* the same in lower case, in upper case and in any mix of cases.
C5_CaseIgnored ==
    ( /\ Called
      /\ edit = "case"
      /\ \A i \in 1..Len(base.str) :
            base.str[i] \in UpperChars \cup LowerChars \cup DigitChars \cup {" ", "-"} )
    => output = baseOutput

C5_Witness ==
    /\ edit = "case"
    /\ output = "true"
    /\ baseOutput = "true"
    /\ \E i \in 1..Len(input.str) : input.str[i] \in LowerChars
    /\ \E i \in 1..Len(input.str) : input.str[i] \in UpperChars

\* C6: an input whose first two letters are no key of the registry is
\* rejected, whatever follows, also when the universal checksum is 1.
C6_UnknownCountryRejected ==
    (Called /\ UnknownCountry(input)) => output = "false"

C6_Witness ==
    /\ output = "false"
    /\ UnknownCountry(input)
    /\ Len(Normalized(input.str)) >= 15
    /\ isoRemainder(SubSeq(Normalized(input.str), 5, Len(Normalized(input.str)))
                      \o SubSeq(Normalized(input.str), 1, 4), 0) = 1

\* C7 as stated: an accepted IBAN with any one character removed, or one
\* letter or digit added, is rejected.
C7_AnyCharacterRemovedOrAdded ==
    (Called /\ edit \in {"remove", "add"} /\ baseOutput = "true") => output = "false"

\* C7, amended: an accepted IBAN with one of its letters or digits removed,
\* or one letter or digit added, is rejected.
C7_LetterOrDigitRemovedOrAdded ==
    ( /\ Called
      /\ edit \in {"remove", "add"}
      /\ baseOutput = "true"
      /\ editChar \in UpperChars \cup LowerChars \cup DigitChars )
    => output = "false"

C7_Witness ==
    /\ edit = "remove"
    /\ baseOutput = "true"
    /\ editChar \in DigitChars
    /\ output = "false"

\* C8: the reference IBANs of NL, BE, NO, FR, ES and PT are accepted, those of
\* BE, NO, FR, ES and PT with their national checksum passing as well as the
\* universal one, and the three with a wrong last digit are rejected.
C8_Fixtures ==
    Called =>
        /\ input \in {StringValue(s) : s \in {NL_valid, BE_valid, NO_valid,
                                               FR_valid, ES_valid, PT_valid}}
              => output = "true"
        /\ input \in {StringValue(s) : s \in {BE_valid, NO_valid, FR_valid,
                                               ES_valid, PT_valid}}
              => /\ NationalFunc(input.str) # "none"
                 /\ callBbanValidationFunc(NationalFunc(input.str), sliceFrom(input.str, 4))
                 /\ isValidIBANChecksum(input.str)
        /\ input \in {StringValue(s) : s \in {NL_wrong, BE_wrong, NO_wrong}}
              => output = "false"

C8_Witness ==
    /\ output = "true"
    /\ input = StringValue(FR_valid)

\* The value of a string of decimal digits modulo 97.
RECURSIVE decimalMod97(_)
decimalMod97(ds) ==
    IF Len(ds) = 0 THEN 0
    ELSE (10 * decimalMod97(SubSeq(ds, 1, Len(ds) - 1)) + digitVal(ds[Len(ds)])) % 97

\* C9: on a non-empty string of decimal digits mod97 returns the number
\* modulo 97, and every chunk it parses has at most 9 digits, so that every
\* integer it computes is below 10^9.
C9_Mod97OfDigits ==
    (Len(numStr) > 0 /\ AllDigits(numStr)) =>
        /\ pc = "done" => ret = Num(decimalMod97(numStr))
        /\ Len(lastChunk) <= 9
        /\ AllDigits(lastChunk)
        /\ Len(lastChunk) > 0 => (~lastChunkNum.nan /\ lastChunkNum.val < 1000000000)
        /\ AllDigits(remainder)

C9_Witness ==
    /\ pc = "done"
    /\ AllDigits(numStr)
    /\ Len(numStr) > 18
    /\ ret = Num(decimalMod97(numStr))
    /\ numStr[1] = "0" \/ Len(lastChunk) < 9

\* C10: on a string with a character that is no decimal digit, wherever it
\* is, mod97 returns NaN.
C10_NonDigitGivesNaN ==
    (pc = "done" /\ ~AllDigits(numStr)) => ret.nan

\* C11: after any sequence of isValidIBAN calls the countrySpecs object has the
\* entries it had at module load, each with its length, pattern and checksum
\* function, and the result recorded for the last input is the result a call
\* on that input gives now.
C11_RegistryNeverModified ==
    /\ DOMAIN registry = countryCodes
    /\ \A cc \in countryCodes :
          /\ registry[cc].chars = countrySpecs[cc].chars
          /\ registry[cc].bban_regexp = countrySpecs[cc].bban_regexp
          /\ registry[cc].bban_validation_func = countrySpecs[cc].bban_validation_func
    /\ Called => output = isValidIBAN(input)

\* Calls on an accepted, a rejected and a malformed input have been made one
\* after the other: here the third of a chain, on an input of a known country.
C11_Witness ==
    /\ Called /\ edits >= 2 /\ baseOutput = "true"
    /\ input.type = "string"
    /\ slice(normalizeIBAN(input.str), 0, 2) \in countryCodes

\* C12: a national checksum function called with any string returns true or
\* false (it neither throws nor runs for ever), and returns false when the
\* string matches the BBAN pattern of none of the countries that use it.
C12_StrategiesTotalAndRejectMalformed ==
    natRet # "none" =>
        /\ natRet \in {"true", "false"}
        /\ (\A pattern \in strategyPatterns(natFunc) : ~testRuns(natArg, pattern))
              => natRet = "false"

\* How many times fn was scheduled so far: the runs that are queued and those
\* that ran.
timesScheduled == Len(taskQueue) + fnRuns

\* The scenarios of C13 in which fn is due: the response had ended, was null or
\* had no once method, once threw, or an event fired.
fnDue ==
    \/ res.isNull \/ res.writableEnded \/ ~res.hasOnce
    \/ res.throwsAt \in {1, 2}
    \/ Len(fired) > 0

\* C13: after the call fn is never scheduled twice, and it is scheduled once
\* the response had ended, was unusable, once threw, or finish or close fired.
C13_ScheduledExactlyOnce ==
    deferCalled => /\ timesScheduled <= 1
                   /\ fnDue => timesScheduled = 1

IsExec(i) == history[i].kind = "exec"

IsCall(i) == history[i].kind = "call"

\* C14: any two executions of fn are at least wait ms apart.
C14_ExecutionsWaitApart ==
    \A i, j \in 1..Len(history) :
        (i < j /\ IsExec(i) /\ IsExec(j)) => history[j].time - history[i].time >= wait

\* The call at position i of the history is the last one of its burst when
\* bursts are told apart by time: no call follows it less than wait ms later.
NextCallAfter(i) ==
    IF \E k \in (i + 1)..Len(history) : IsCall(k)
    THEN CHOOSE k \in (i + 1)..Len(history) :
            IsCall(k) /\ \A m \in (i + 1)..(k - 1) : ~IsCall(m)
    ELSE Len(history) + 1

LastOfTimedBurst(i) ==
    /\ IsCall(i)
    /\ NextCallAfter(i) <= Len(history) =>
            history[NextCallAfter(i)].time - history[i].time >= wait

\* fn ran for the call at position i: the executions between that call and the
\* next one.
ExecutionsFor(i) == {j \in (i + 1)..(NextCallAfter(i) - 1) : IsExec(j)}

\* C15 as stated: once no timeout is pending, every burst of calls less than
\* wait ms apart has exactly one execution of fn, after its last call, not
\* before wait ms have passed since that call and with its arguments.
C15_OncePerTimedBurst ==
    ~timer.pending =>
        \A i \in 1..Len(history) :
            LastOfTimedBurst(i) =>
                /\ Cardinality(ExecutionsFor(i)) = 1
                /\ \A j \in ExecutionsFor(i) :
                      /\ history[j].arg = history[i].arg
                      /\ history[j].time >= history[i].time + wait

\* C15: bursts told apart by the timeout.  Every execution of fn comes right
\* after a call, with that call's arguments and not before wait ms have passed
\* since it; calls less than wait ms apart have no execution between them; a
\* pending timeout is the one of the last call; and once no timeout is
\* pending the last call has been executed.
C15_OncePerBurst ==
    /\ \A j \in 1..Len(history) :
          IsExec(j) => /\ j > 1 /\ IsCall(j - 1)
                       /\ history[j].arg = history[j - 1].arg
                       /\ history[j].time >= history[j - 1].time + wait
    /\ \A i, k \in 1..Len(history) :
          (i < k /\ IsCall(i) /\ IsCall(k) /\ history[k].time - history[i].time < wait)
              => \A j \in i..k : IsCall(j)
    /\ timer.pending =>
          /\ Len(history) > 0 /\ IsCall(Len(history))
          /\ timer.arg = history[Len(history)].arg
          /\ timer.due = history[Len(history)].time + wait
    /\ (~timer.pending /\ Len(history) > 0) => IsExec(Len(history))

\* A burst of two calls with different arguments was executed, and a later
\* call started the next burst.
C15_Witness ==
    /\ Len(history) >= 4
    /\ IsCall(1) /\ IsCall(2) /\ IsExec(3) /\ IsCall(4)
    /\ history[1].arg # history[2].arg
    /\ history[2].time - history[1].time < wait

\* C16: with a secret of at least 12 characters, a positive bitSize and a
\* non-empty base36 identifier, the encoder succeeds with a lower-case base36
\* code, and the decoder succeeds on that code and returns the identifier in
\* upper case.
C16_DecodeInvertsEncode ==
    (/\ Len(config.secret) >= 12 /\ config.bitSize > 0
     /\ isValidBase36(identifier)
     /\ encoded # NotReturned)
        => /\ encoded.status
           /\ Len(encoded.data) > 0
           /\ \A i \in 1..Len(encoded.data) :
                 encoded.data[i] \in DigitChars \cup LowerChars
           /\ decoded # NotReturned =>
                 decoded.status /\ decoded.data = toUpperCase(identifier)

\* C17: scrambleString returns status true, and descrambleString on its data
\* with the same secret returns status true and the value.
C17_DescrambleInvertsScramble ==
    /\ scrambled # NoResult => scrambled.status
    /\ descrambled # NoResult => descrambled.status /\ descrambled.data = scrValue

\* C18 as stated: two different secrets give different outputs.
C18_DifferentSecretsDifferentOutputs ==
    scrambled2 # NoResult => scrambled2.data # scrambled.data

\* The bytes a secret supplies for a value of n code units.
keyStream(key, n) == [i \in 1..n |-> key[((i - 1) % Len(key)) + 1] % 256]

\* C18: two secrets give different outputs exactly when the bytes they
\* supply for the positions of the value differ somewhere.
C18_OutputsDifferWhereKeysDiffer ==
    scrambled2 # NoResult =>
        (scrambled2.data # scrambled.data
            <=> keyStream(scrSecret2, Len(scrValue)) # keyStream(scrSecret, Len(scrValue)))

\* Two secrets of two characters that differ in the second one only, on a
\* value long enough to reach it: the outputs differ.
C18_Witness ==
    /\ scrambled2 # NoResult
    /\ Len(scrSecret) = 2 /\ Len(scrSecret2) = 2 /\ Len(scrValue) >= 2
    /\ scrSecret[1] = scrSecret2[1] /\ scrSecret[2] % 256 # scrSecret2[2] % 256
    /\ scrambled2.data # scrambled.data

\* The condition of C19 on the text of a value, with the weights written out.
NifWeights == <<9, 8, 7, 6, 5, 4, 3, 2>>

RECURSIVE weightedDigits(_, _)
weightedDigits(ds, n) ==
    IF n = 0 THEN 0 ELSE weightedDigits(ds, n - 1) + digitVal(ds[n]) * NifWeights[n]

StatedNif(text) ==
    LET ds == SelectSeq(text, LAMBDA c : c \in DigitChars)
        r == weightedDigits(ds, 8) % 11
    IN  /\ Len(ds) = 9
        /\ \E i \in 1..9 : ds[i] # ds[1]
        /\ ds[1] \in {"1", "2", "3", "5", "6", "8", "9"}
        /\ digitVal(ds[9]) = (IF r < 2 THEN 0 ELSE 11 - r)

NifText == IF nifInput.type = "number" THEN natToString(nifInput.num) ELSE nifInput.str

README_123456789 == <<"1", "2", "3", "4", "5", "6", "7", "8", "9">>

\* The code returns true exactly under the stated condition.
NifExactlyStated ==
    nifOutput # "none" =>
        (nifOutput = "true" <=> (nifInput.type \in {"string", "number"} /\ StatedNif(NifText)))

ClaimedOrder ==
    <<"guard", "normalize", "shape", "lookup", "length", "pattern", "national",
      "checksum">>

namedStages == SelectSeq([i \in 1..Len(trace) |-> trace[i].stage],
                         LAMBDA s : \E i \in 1..Len(ClaimedOrder) : ClaimedOrder[i] = s)

passedBefore(s, i) == \E j \in 1..(i - 1) : trace[j].stage = s /\ trace[j].passed

\* C20: the stages are evaluated in the order guard, normalize, shape,
\* lookup, length, BBAN pattern, national checksum, universal checksum; no
\* stage is evaluated after one that failed, and the call then returns
\* false; a national function is only invoked with a BBAN of the country's
\* length minus 4 that matches the country's pattern; the pattern is only
\* matched after the lookup and the length check passed.
C20_StagesInOrderFailFast ==
    /\ namedStages = SubSeq(ClaimedOrder, 1, Len(namedStages))
    /\ \A i \in 1..(Len(trace) - 1) : trace[i].passed
    /\ (trace # <<>> /\ ~trace[Len(trace)].passed) => (stage = "done" /\ returned = "false")
    /\ returned = "true" =>
          (namedStages = ClaimedOrder /\ \A i \in 1..Len(trace) : trace[i].passed)
    /\ returned # "none" => returned = isValidIBAN(callValue)
    /\ \A k \in 1..Len(invoked) :
          /\ callSpec.found
          /\ invoked[k].func = callSpec.spec.bban_validation_func
          /\ Len(invoked[k].bban) = callSpec.spec.chars - 4
          /\ testRuns(invoked[k].bban, callSpec.spec.bban_regexp)
    /\ \A i \in 1..Len(trace) :
          trace[i].stage = "pattern" => (passedBefore("lookup", i) /\ passedBefore("length", i))

\* A call has passed the lookup, the length test and the pattern, has invoked
\* the country's national function, which rejected the BBAN, and has
\* returned false without evaluating the MOD-97 checksum.
C20_Witness ==
    /\ returned = "false"
    /\ invoked # <<>>
    /\ trace[Len(trace)].stage = "national"
\* The function of the country's entry.
bbanFunc == countrySpecs[bbanCountry].bban_validation_func

allDigits(s) == \A i \in 1..Len(s) : s[i] \in DigitChars

Mod97Family == {<<"B", "A">>, <<"M", "E">>, <<"M", "K">>, <<"P", "T">>, <<"R", "S">>, <<"S", "I">>}

\* C21: the entries BA, ME, MK, PT, RS and SI, and no others, are bound to
\* checkMod97BBAN; a pattern-matching BBAN of one of them passes the national
\* check exactly when mod97 of the whole BBAN is 1, which for a BBAN of
\* digits is the number it spells modulo 97.
C21_Mod97FamilyRemainderOne ==
    /\ {cc \in countryCodes : countrySpecs[cc].bban_validation_func = "checkMod97BBAN"}
          = Mod97Family
    /\ (bbanRet # "none" /\ bbanCountry \in Mod97Family) =>
          /\ bbanRet = "true" <=> strictEq(mod97(bbanText), Num(1))
          /\ allDigits(bbanText) => (bbanRet = "true" <=> digitsRem(bbanText, 97) = 1)

\* A BBAN of the family that was edited twice passed the national check.
C21_Witness ==
    /\ bbanCountry \in Mod97Family /\ bbanEdits = MaxBbanEdits
    /\ bbanRet = "true"

\* The rule of C22 on a BBAN of digits: the digits at the 0-based positions
\* from..(from + Len(weights) - 1), one weight each.
RECURSIVE statedSum(_, _, _, _)
statedSum(b, from, weights, n) ==
    IF n = 0 THEN 0
    ELSE statedSum(b, from, weights, n - 1) + digitVal(b[from + n]) * weights[n]

statedRemainder(b, from, weights, modulus) ==
    statedSum(b, from, weights, Len(weights)) % modulus

statedControl(r, modulus) == IF r = 0 THEN 0 ELSE modulus - r

SingleSumRules == [
    checkEstonianBBAN |-> [from |-> 2, weights |-> <<7, 1, 3, 7, 1, 3, 7, 1, 3, 7, 1, 3, 7>>,
                           base |-> 10, control |-> 15],
    checkNorwegianBBAN |-> [from |-> 0, weights |-> <<5, 4, 3, 2, 7, 6, 5, 4, 3, 2>>,
                            base |-> 11, control |-> 10],
    checkPolishBBAN |-> [from |-> 0, weights |-> <<3, 9, 7, 1, 3, 9, 7>>,
                         base |-> 10, control |-> 7]]

\* C22: Estonia, Norway and Poland accept a pattern-matching BBAN exactly
\* when its control digit is (r = 0 ? 0 : base - r), r the weighted sum of
\* the stated positions modulo the base; the summed range ends right before
\* the control digit, so it is as long as the weight vector; with base 11 a
\* remainder of 1 is rejected whatever the control digit.
C22_SingleWeightedSum ==
    (bbanRet # "none" /\ bbanFunc \in DOMAIN SingleSumRules) =>
        LET rule == SingleSumRules[bbanFunc]
            r == statedRemainder(bbanText, rule.from, rule.weights, rule.base)
        IN  /\ rule.from + Len(rule.weights) = rule.control
            /\ bbanRet = "true" <=>
                  digitVal(bbanText[rule.control + 1]) = statedControl(r, rule.base)
            /\ (rule.base = 11 /\ r = 1) => bbanRet = "false"

\* A Norwegian BBAN whose weighted sum has remainder 1 was checked after an
\* edit.
C22_Witness ==
    /\ bbanRet # "none" /\ bbanEdits > 0
    /\ bbanFunc = "checkNorwegianBBAN"
    /\ statedRemainder(bbanText, 0, SingleSumRules[bbanFunc].weights, 11) = 1

\* The digit C23 states for Spain and Czech/Slovakia.
statedControl11(r) == IF r = 0 THEN 0 ELSE IF r = 1 THEN 1 ELSE 11 - r

\* The stated sub-check on plain integers: the control digit at the 0-based
\* position control against the digits from..(from + n - 1) with the first n
\* weights.
statedSubCheck(b, from, weights, n, control) ==
    digitVal(b[control + 1]) =
        statedControl11(statedSum(b, from, SubSeq(weights, 1, n), n) % 11)

\* The 1-based indexes of a sub-field and of its control digit.
subFieldOne(f) == ((f.from1 + 1)..f.to1) \cup {f.control1 + 1}

subFieldTwo(f) == ((f.from2 + 1)..f.to2) \cup {f.control2 + 1}

DualFamily == DOMAIN dualFields

WeightedDual == {"checkSpanishBBAN", "checkCzechSlovakBBAN"}

\* The function returns true exactly when both sub-checks pass.
BothSubChecks ==
    (bbanRet # "none" /\ bbanFunc \in DualFamily) =>
        /\ bbanRet = "true" <=>
              (firstSubCheck(bbanFunc, bbanText) /\ secondSubCheck(bbanFunc, bbanText))
        /\ bbanFunc \in WeightedDual =>
              LET f == dualFields[bbanFunc]
              IN  /\ firstSubCheck(bbanFunc, bbanText) <=>
                        statedSubCheck(bbanText, f.from1, f.weights1, f.rounds1, f.control1)
                  /\ secondSubCheck(bbanFunc, bbanText) <=>
                        statedSubCheck(bbanText, f.from2, f.weights2, f.rounds2, f.control2)

\* The BBAN of the state with one digit at one of the positions replaced.
changedWithin(positions) ==
    {replaceAt(bbanText, pos, newDigit) : pos \in positions, newDigit \in DigitChars}

\* Changing a digit of one sub-field, its control digit included, leaves the
\* outcome of the other sub-check as it was.
SubChecksIndependent ==
    (bbanRet # "none" /\ bbanFunc \in DualFamily) =>
        LET f == dualFields[bbanFunc]
        IN  /\ subFieldOne(f) \cap subFieldTwo(f) = {}
            /\ \A changed \in changedWithin(subFieldOne(f)) :
                  secondSubCheck(bbanFunc, changed) = secondSubCheck(bbanFunc, bbanText)
            /\ \A changed \in changedWithin(subFieldTwo(f)) :
                  firstSubCheck(bbanFunc, changed) = firstSubCheck(bbanFunc, bbanText)

\* Every weight of each vector multiplies one digit of its sub-field: the
\* loop runs once per weight, over a sub-field of as many digits.
EveryWeightApplied ==
    (bbanRet # "none" /\ bbanFunc \in WeightedDual) =>
        LET f == dualFields[bbanFunc]
        IN  /\ f.rounds1 = Len(f.weights1) /\ f.to1 - f.from1 = Len(f.weights1)
            /\ f.rounds2 = Len(f.weights2) /\ f.to2 - f.from2 = Len(f.weights2)

\* C23: Spain, Czech/Slovakia and Croatia return true exactly when both
\* sub-checks pass, each on its own sub-field and control digit; the two
\* sub-checks are independent; for Spain and Czech/Slovakia the derived digit
\* is 0, 1 or 11 minus the remainder, and every weight of each weight vector
\* is applied to one digit of its sub-field.
C23_DualWeightedSum ==
    /\ BothSubChecks
    /\ SubChecksIndependent
    /\ EveryWeightApplied

\* The table of C24: A,J->1; B,K,S->2; C,L,T->3; D,M,U->4; E,N,V->5;
\* F,O,W->6; G,P,X->7; H,Q,Y->8; I,R,Z->9, by the place of the letter in the
\* alphabet.
StatedFrenchTable ==
    <<"1", "2", "3", "4", "5", "6", "7", "8", "9",
      "1", "2", "3", "4", "5", "6", "7", "8", "9",
      "2", "3", "4", "5", "6", "7", "8", "9">>

statedFrench(c) ==
    IF c \in DigitChars THEN c
    ELSE StatedFrenchTable[CHOOSE i \in 1..26 : UpperSeq[i] = c]

FrenchFamily == {<<"F", "R">>, <<"M", "C">>}

\* C24: FR and MC, and no others, are bound to checkFrenchBBAN; the function
\* replaces every letter by the digit of the stated table and keeps the
\* digits, and accepts exactly when the resulting 23-digit number is a
\* multiple of 97; no letter has the same replacement in the universal
\* checksum, which writes it as two digits, 10 to 35.
C24_FrenchTable ==
    /\ {cc \in countryCodes : countrySpecs[cc].bban_validation_func = "checkFrenchBBAN"}
          = FrenchFamily
    /\ \A c \in UpperChars \cup DigitChars : frenchDigit(c) = statedFrench(c)
    /\ \A i \in 1..26 :
          /\ checksumDigits(UpperSeq[i]) = natToString(9 + i)
          /\ checksumDigits(UpperSeq[i]) # <<frenchDigit(UpperSeq[i])>>
    /\ (bbanRet # "none" /\ bbanCountry \in FrenchFamily) =>
          LET digits == [i \in 1..Len(bbanText) |-> statedFrench(bbanText[i])]
          IN  /\ Len(digits) = 23 /\ allDigits(digits)
              /\ bbanRet = "true" <=> digitsRem(digits, 97) = 0

\* An edited French or Monegasque BBAN with two letters was accepted.
C24_Witness ==
    /\ bbanCountry \in FrenchFamily /\ bbanEdits > 0
    /\ bbanRet = "true"
    /\ Cardinality({i \in 1..Len(bbanText) : bbanText[i] \in UpperChars}) = 2

\* The first ten digits of a Belgian BBAN as a number modulo 97, and its last
\* two digits as a number.
belgianPartRem(b) == digitsRem(SubSeq(b, 1, 10), 97)

belgianChecksum(b) == 10 * digitVal(b[11]) + digitVal(b[12])

\* The checksum C25 states for a checking part.
statedBelgianChecksum(b) == IF belgianPartRem(b) = 0 THEN 97 ELSE belgianPartRem(b)

\* C25: checkBelgianBBAN accepts a 12-digit BBAN exactly when its last two
\* digits equal the first ten modulo 97, 97 standing for the remainder 0; a
\* BBAN ending in 00 is never accepted, and of the hundred checksums of a
\* checking part exactly one is accepted.
C25_BelgianChecksum ==
    (bbanRet # "none" /\ bbanFunc = "checkBelgianBBAN") =>
        /\ Len(bbanText) = 12
        /\ bbanRet = "true" <=> belgianChecksum(bbanText) = statedBelgianChecksum(bbanText)
        /\ belgianChecksum(bbanText) = 0 => bbanRet = "false"
        /\ Cardinality({pair \in DigitChars \X DigitChars :
                checkBelgianBBAN(SubSeq(bbanText, 1, 10) \o <<pair[1], pair[2]>>)}) = 1

\* A Belgian BBAN whose checking part is a multiple of 97 was accepted with
\* the checksum 97, after an edit.
C25_Witness ==
    /\ bbanFunc = "checkBelgianBBAN" /\ bbanEdits > 0
    /\ bbanRet = "true"
    /\ belgianPartRem(bbanText) = 0

\* The weights of C26, 9,7,3,1 repeating, and the control digit of the n
\* digits from the 0-based position from on.
HungarianWeights == <<9, 7, 3, 1, 9, 7, 3, 1, 9, 7, 3, 1, 9, 7, 3>>

statedHungarianControl(b, from, n) ==
    statedControl(statedSum(b, from, SubSeq(HungarianWeights, 1, n), n) % 10, 10)

zeroPadded(b) == \A i \in 17..24 : b[i] = "0"

\* C26: checkHungarianBBAN rejects when the digit at position 7 is not the
\* control digit of positions 0..6, whatever the account part; otherwise a
\* BBAN whose last 8 digits are zero is accepted exactly when the digit at
\* position 15 is the control digit of positions 8..14, and any other BBAN
\* exactly when the digit at position 23 is the control digit of positions
\* 8..22.
C26_HungarianBranches ==
    (bbanRet # "none" /\ bbanFunc = "checkHungarianBBAN") =>
        LET b == bbanText
            bankOk == digitVal(b[8]) = statedHungarianControl(b, 0, 7)
            shortOk == digitVal(b[16]) = statedHungarianControl(b, 8, 7)
            longOk == digitVal(b[24]) = statedHungarianControl(b, 8, 15)
        IN  /\ Len(b) = 24
            /\ ~bankOk => bbanRet = "false"
            /\ (bankOk /\ zeroPadded(b)) => (bbanRet = "true" <=> shortOk)
            /\ (bankOk /\ ~zeroPadded(b)) => (bbanRet = "true" <=> longOk)

\* An edited Hungarian BBAN padded with eight zeros was accepted by the
\* control digit at position 15.
C26_Witness ==
    /\ bbanFunc = "checkHungarianBBAN" /\ bbanEdits > 0
    /\ bbanRet = "true"
    /\ zeroPadded(bbanText)

\* C27: mod97 terminates on every string: an iteration of the loop either
\* returns NaN or leaves a strictly shorter working string, and the function
\* returns from a working string of at most 2 characters.
C27_EachIterationShortens ==
    /\ (pc = "loop" /\ Len(remainder) > 2) =>
          LET it == mod97Iter(remainder)
          IN  it.nan \/ Len(it.rem) < Len(remainder)
    /\ (pc = "done" /\ ~ret.nan) => Len(remainder) <= 2

\* The case of C28: the response has not ended and once attached both
\* listeners.
ListenersAttached ==
    /\ deferCalled
    /\ ~res.isNull /\ ~res.writableEnded /\ res.hasOnce /\ res.throwsAt = 0

\* The ways a run is handed to the runtime by each of the two functions.
LaterTasks ==
    IF deferFunc = "deferAfterResponse" THEN {"queueMicrotask", "promise"}
    ELSE {"setImmediate", "setTimeout"}

\* C28: with both listeners attached, fn is not scheduled before finish or
\* close fires and is scheduled, once, from the first of them on; fn runs
\* only when the runtime takes a run from its queue, never within the call
\* or within a listener; whatever fn throws or rejects with is swallowed.
C28_ScheduledAtFirstEvent ==
    /\ [](ListenersAttached =>
            /\ fired = <<>> => timesScheduled = 0
            /\ fired # <<>> => timesScheduled = 1
            /\ \A i \in 1..Len(taskQueue) : taskQueue[i] \in LaterTasks
            /\ \A i \in 1..Len(outcomes) : outcomes[i] \in {"completed", "caught", "swallowed"})
    /\ [][fnRuns' # fnRuns =>
            /\ Len(taskQueue) > 0 /\ taskQueue' = Tail(taskQueue)
            /\ UNCHANGED <<deferCalled, fired, listeners, executed>>]_vars

\* close fired first, and fn, which throws, ran once afterwards.
C28_Witness ==
    /\ ListenersAttached
    /\ fired = <<"close">>
    /\ fnBehaviour = "throws"
    /\ outcomes = <<"caught">>

\* The sum of the widths of the runs of a pattern.
RECURSIVE widthSum(_)
widthSum(runs) == IF Len(runs) = 0 THEN 0 ELSE runs[1][2] + widthSum(Tail(runs))

stagePassed(s) == \E i \in 1..Len(trace) : trace[i].stage = s /\ trace[i].passed

\* C29: every entry has a total length between 15 and 34 and a pattern
\* whose widths sum to the total length minus 4; the pattern is anchored at
\* both ends, so the BBAN of the entry's input with a character before or
\* after it does not match; and the entry's input passes the length bounds
\* and the shape, the lookup, the length check and the BBAN pattern.
C29_RegistryConsistent ==
    /\ \A cc \in DOMAIN registry :
          /\ registry[cc].chars \in 15..34
          /\ widthSum(registry[cc].bban_regexp) = registry[cc].chars - 4
    /\ LET cc == slice(callValue.str, 0, 2)
           bban == sliceFrom(callValue.str, 4)
           runs == registry[cc].bban_regexp
       IN  /\ cc \in DOMAIN registry
           /\ testRuns(bban, runs)
           /\ \A c \in {"0", "A"} :
                 ~testRuns(bban \o <<c>>, runs) /\ ~testRuns(<<c>> \o bban, runs)
           /\ Len(bban) > 0 => ~testRuns(SubSeq(bban, 1, Len(bban) - 1), runs)
    /\ returned # "none" =>
          /\ stagePassed("shape") /\ stagePassed("lookup")
          /\ stagePassed("length") /\ stagePassed("pattern")

\* The input of the longest entry, 32 characters, has passed the BBAN
\* pattern and the call has returned.
C29_Witness ==
    /\ returned # "none"
    /\ Len(callIban) = 32
    /\ stagePassed("pattern")

\* The check-digit pairs isValidIBAN accepts for the country code and BBAN
\* of the state.
acceptedPairs ==
    {c \in CheckDigitPairs :
        isValidIBAN(StringValue(withCheckDigits(pairCountry, c, pairBban))) = "true"}

\* C30: when isValidIBAN has accepted the same country code and BBAN with
\* two different check-digit pairs, their values differ by exactly 97; at
\* most two pairs are accepted for a country code and BBAN, and at most one
\* of them lies in 02..98.
C30_AcceptedPairsDifferBy97 ==
    /\ (pairFirstRet = "true" /\ pairSecondRet = "true") =>
          \/ pairFirst - pairSecond = 97
          \/ pairSecond - pairFirst = 97
    /\ pairFirst = -1 =>
          /\ Cardinality(acceptedPairs) <= 2
          /\ Cardinality(acceptedPairs \cap 2..98) <= 1

\* Both calls returned true: the second with 98 after the first with 01.
C30_Witness ==
    /\ pairFirstRet = "true" /\ pairSecondRet = "true"
    /\ pairFirst = 1 /\ pairSecond = 98

====
